---------------------------- MODULE Spec2Model ----------------------------
(***************************************************************************)
(* Model of the deltafi client codec: the buffer layouts (layout.ts), the  *)
(* Struct wrapper (struct/*.ts), the instruction encoders                  *)
(* (instructions.ts, instructions/admin.ts) and the account loaders        *)
(* (admin.ts, farm.ts).                                                    *)
(*                                                                         *)
(* JavaScript values are tagged records.  An integer is held as three      *)
(* 24-bit words, least significant first, so that the full unsigned 64-bit *)
(* range (and the first values beyond it) is available to the codec.       *)
(***************************************************************************)
EXTENDS Integers, Sequences, FiniteSets, TLC

VARIABLES ledger, last, heap, tasks, objects

vars == <<ledger, last, heap, tasks, objects>>

-----------------------------------------------------------------------------
(* Integers as three 24-bit words, least significant first.                *)

W == 4096 * 4096

Zero == <<0, 0, 0>>

\* A small native integer as words (n < 2^31).
NatOf(n) == <<n % W, n \div W, 0>>

\* 2^48 * hi + 2^24 * mid + lo.
Words(hi, mid, lo) == <<lo, mid, hi>>

RECURSIVE Pow2(_)
Pow2(n) == IF n = 0 THEN 1 ELSE 2 * Pow2(n - 1)

RECURSIVE BitLen(_)
BitLen(n) == IF n = 0 THEN 0 ELSE 1 + BitLen(n \div 2)

WordsLess(x, y) ==
    \/ x[3] < y[3]
    \/ x[3] = y[3] /\ x[2] < y[2]
    \/ x[3] = y[3] /\ x[2] = y[2] /\ x[1] < y[1]

\* x + 1, carrying between words.
WordsSucc(x) ==
    IF x[1] + 1 < W THEN <<x[1] + 1, x[2], x[3]>>
    ELSE IF x[2] + 1 < W THEN <<0, x[2] + 1, x[3]>>
    ELSE <<0, 0, x[3] + 1>>

\* 2^64 - x for 0 < x <= 2^64: the magnitude of a negative two's complement
\* 64-bit pattern.
WordsNeg64(x) ==
    LET b1 == IF x[1] = 0 THEN 0 ELSE 1
        b2 == IF x[2] + b1 = 0 THEN 0 ELSE 1
    IN  << (W - x[1]) % W, (2 * W - x[2] - b1) % W, 65536 - x[3] - b2 >>

\* Below 2^64.
FitsU64(x) == x[3] < 65536

\* Below 2^53: exactly representable as an IEEE double.
FitsSafe(x) == x[3] < 32

\* The eight little-endian bytes of x (x < 2^64).
LE64(x) ==
    << x[1] % 256, (x[1] \div 256) % 256, x[1] \div 65536,
       x[2] % 256, (x[2] \div 256) % 256, x[2] \div 65536,
       x[3] % 256, (x[3] \div 256) % 256 >>

\* The value of eight little-endian bytes.
FromLE64(b) ==
    << b[1] + 256 * b[2] + 65536 * b[3],
       b[4] + 256 * b[5] + 65536 * b[6],
       b[7] + 256 * b[8] >>

\* The nearest IEEE double (53-bit significand, ties to even) of the
\* non-negative integer x: what Number(decimalString) and hi32 * 2^32 + lo32
\* evaluate to.
RoundDouble(x) ==
    IF FitsSafe(x) THEN x
    ELSE LET d    == BitLen(x[3]) - 5
             m    == Pow2(d)
             q    == x[1] \div m
             r    == x[1] % m
             half == m \div 2
             up   == IF r > half \/ (r = half /\ q % 2 = 1) THEN 1 ELSE 0
             lo   == (q + up) * m
         IN  IF lo < W THEN <<lo, x[2], x[3]>>
             ELSE IF x[2] + 1 < W THEN <<0, x[2] + 1, x[3]>>
             ELSE <<0, 0, x[3] + 1>>

-----------------------------------------------------------------------------
(* JavaScript values.                                                      *)

\* An expression that threw instead of yielding a value.
Throw(e) == [t |-> "throw", err |-> e]

\* A number: the double w * 2^e with its sign, NaN, or an infinity.  An
\* integer below 2^72 has e = 0 and its magnitude in w, so -0 is
\* JsNumber(TRUE, Zero).
JsNumber(neg, w) ==
    [t |-> "number", nan |-> FALSE, inf |-> FALSE, neg |-> neg, w |-> w, e |-> 0]

NaN == [t |-> "number", nan |-> TRUE, inf |-> FALSE, neg |-> FALSE, w |-> Zero, e |-> 0]

Infinity(neg) ==
    [t |-> "number", nan |-> FALSE, inf |-> TRUE, neg |-> neg, w |-> Zero, e |-> 0]

\* A number that is no integer below 2^72: w < 2^53 is odd and e # 0; e < 0
\* for a number with a fraction.
JsDouble(neg, w, e) ==
    [t |-> "number", nan |-> FALSE, inf |-> FALSE, neg |-> neg, w |-> w, e |-> e]

\* A bn.js big integer; NumberU64 extends it.
BN(neg, w) == [t |-> "BN", neg |-> neg, w |-> w]

Buffer(b) == [t |-> "Buffer", b |-> b]

Object(f) == [t |-> "object", f |-> f]

Undefined == [t |-> "undefined"]

\* src[name] for a string property name: reading a property of undefined
\* throws, and a property the value lacks is undefined.
Prop(src, name) ==
    IF src.t = "undefined" THEN Throw("TypeError")
    ELSE IF src.t = "object" /\ name \in DOMAIN src.f THEN src.f[name]
    ELSE Undefined

RECURSIVE Zeros(_)
Zeros(n) == IF n = 0 THEN <<>> ELSE <<0>> \o Zeros(n - 1)

\* The white space and line terminator characters Number() skips at both
\* ends of a text, as the bytes of their UTF-8 encodings: U+0009..U+000D,
\* U+0020, U+00A0, U+1680, U+2000..U+200A, U+2028, U+2029, U+202F, U+205F,
\* U+3000 and U+FEFF.
WhiteSpaces ==
    { <<c>> : c \in {9, 10, 11, 12, 13, 32} }
        \cup { <<194, 160>>, <<225, 154, 128>>, <<226, 128, 168>>, <<226, 128, 169>>,
               <<226, 128, 175>>, <<226, 129, 159>>, <<227, 128, 128>>,
               <<239, 187, 191>> }
        \cup { <<226, 128, c>> : c \in 128..138 }

\* The lengths of the white space characters s has at position i.
SpaceAt(s, i) ==
    { n \in 1..3 : i >= 1 /\ i + n - 1 <= Len(s) /\ SubSeq(s, i, i + n - 1) \in WhiteSpaces }

IsDigit(c) == c \in 48..57

RECURSIVE TrimLeft(_)
TrimLeft(s) ==
    IF SpaceAt(s, 1) = {} THEN s
    ELSE TrimLeft(SubSeq(s, 1 + (CHOOSE n \in SpaceAt(s, 1) : TRUE), Len(s)))

\* The lengths of the white space characters that end s.
SpaceAtEnd(s) == { n \in 1..3 : n \in SpaceAt(s, Len(s) - n + 1) }

RECURSIVE TrimRight(_)
TrimRight(s) ==
    IF SpaceAtEnd(s) = {} THEN s
    ELSE TrimRight(SubSeq(s, 1, Len(s) - (CHOOSE n \in SpaceAtEnd(s) : TRUE)))

\* A natural number of any size as 24-bit limbs, least significant first;
\* <<>> is 0.
Limb(x, i) == IF i >= 1 /\ i <= Len(x) THEN x[i] ELSE 0

\* x without the zero limbs at its top.
RECURSIVE Strip(_)
Strip(x) == IF x # <<>> /\ x[Len(x)] = 0 THEN Strip(SubSeq(x, 1, Len(x) - 1)) ELSE x

\* The number of bits of x, for x without zero limbs at its top.
BigBitLen(x) == IF x = <<>> THEN 0 ELSE 24 * (Len(x) - 1) + BitLen(x[Len(x)])

\* b * x + d for small b and d: limb i and the limbs above it, with the
\* carry of the limbs below.
RECURSIVE BigMulAddFrom(_, _, _, _, _)
BigMulAddFrom(x, i, b, carry, acc) ==
    IF i > Len(x) THEN (IF carry = 0 THEN acc ELSE Append(acc, carry))
    ELSE BigMulAddFrom(x, i + 1, b, (b * x[i] + carry) \div W,
                       Append(acc, (b * x[i] + carry) % W))

BigMulAdd(x, b, d) == BigMulAddFrom(x, 1, b, d, <<>>)

\* x \div b and x % b for small b, from limb i down with the remainder r of
\* the limbs above.
RECURSIVE BigDivFrom(_, _, _, _, _)
BigDivFrom(x, i, b, r, q) ==
    IF i = 0 THEN [q |-> Strip(q), r |-> r]
    ELSE BigDivFrom(x, i - 1, b, (r * W + x[i]) % b, <<(r * W + x[i]) \div b>> \o q)

BigDiv(x, b) == BigDivFrom(x, Len(x), b, 0, <<>>)

\* x \div 2^r.
BigShiftRight(x, r) ==
    [i \in 1..(IF Len(x) > r \div 24 THEN Len(x) - r \div 24 ELSE 0) |->
        Limb(x, i + r \div 24) \div Pow2(r % 24)
            + (Limb(x, i + r \div 24 + 1) % Pow2(r % 24)) * Pow2(24 - (r % 24))]

\* x * 2^r.
BigShiftLeft(x, r) ==
    Strip([i \in 1..(Len(x) + r \div 24 + 1) |->
              (Limb(x, i - r \div 24) % Pow2(24 - (r % 24))) * Pow2(r % 24)
                  + Limb(x, i - r \div 24 - 1) \div Pow2(24 - (r % 24))])

\* x - y for x >= y: limb i and the limbs above it, with the borrow of the
\* limbs below.
RECURSIVE BigSubFrom(_, _, _, _, _)
BigSubFrom(x, y, i, borrow, acc) ==
    IF i > Len(x) THEN Strip(acc)
    ELSE BigSubFrom(x, y, i + 1,
                    IF x[i] < Limb(y, i) + borrow THEN 1 ELSE 0,
                    Append(acc, (x[i] + W - Limb(y, i) - borrow) % W))

BigSub(x, y) == BigSubFrom(x, y, 1, 0, <<>>)

\* The r lowest bits of x are zero.
LowBitsZero(x, r) ==
    /\ \A i \in 1..(r \div 24) : Limb(x, i) = 0
    /\ Limb(x, r \div 24 + 1) % Pow2(r % 24) = 0

\* The three words of x < 2^72.
ToWords(x) == <<Limb(x, 1), Limb(x, 2), Limb(x, 3)>>

\* 2 * x and x \div 2 on words.
WordsDouble(x) ==
    <<(2 * x[1]) % W, (2 * x[2] + (2 * x[1]) \div W) % W,
      2 * x[3] + (2 * x[2] + (2 * x[1]) \div W) \div W>>

WordsHalf(x) ==
    <<x[1] \div 2 + (x[2] % 2) * (W \div 2), x[2] \div 2 + (x[3] % 2) * (W \div 2),
      x[3] \div 2>>

\* The number of bits of the words x.
WordsBitLen(x) == BigBitLen(Strip(x))

\* The number m * 2^t for m <= 2^53 in the one form it has: an integer below
\* 2^72 has exponent 0, any other number an odd m; at 2^1024 and above it is
\* an infinity.
RECURSIVE Canonical(_, _, _)
Canonical(neg, m, t) ==
    IF m = Zero THEN JsNumber(neg, Zero)
    ELSE IF WordsBitLen(m) + t > 1024 THEN Infinity(neg)
    ELSE IF t = 0 THEN JsNumber(neg, m)
    ELSE IF t > 0 /\ WordsBitLen(m) + t <= 72 THEN Canonical(neg, WordsDouble(m), t - 1)
    ELSE IF m[1] % 2 = 0 THEN Canonical(neg, WordsHalf(m), t + 1)
    ELSE JsDouble(neg, m, t)

\* The significand m2 \div 2 rounded by the bit m2 % 2 and the sticky bit:
\* to nearest, a tie to even.
RoundedUp(m2, sticky) ==
    IF m2[1] % 2 = 1 /\ (sticky \/ WordsHalf(m2)[1] % 2 = 1)
    THEN WordsSucc(WordsHalf(m2))
    ELSE WordsHalf(m2)

\* The double whose last bit is worth 2^t nearest to q * 2^e, or just above
\* it when sticky; t >= e.
RoundedAt(neg, q, e, sticky, t) ==
    IF t = e THEN Canonical(neg, ToWords(q), e)
    ELSE Canonical(neg,
                   RoundedUp(ToWords(BigShiftRight(q, t - e - 1)),
                             sticky \/ ~LowBitsZero(q, t - e - 1)),
                   t)

\* The IEEE double nearest to q * 2^e (to a value just above it when
\* sticky): 53 bits of significand, and the last bit worth 2^-1074 at least.
RoundBinary(neg, q, e, sticky) ==
    RoundedAt(neg, q, e, sticky,
              IF BigBitLen(q) <= 53 /\ e >= -1074 THEN e
              ELSE IF e + BigBitLen(q) - 53 > -1074 THEN e + BigBitLen(q) - 53
              ELSE -1074)

RECURSIVE BigTimesPow10(_, _)
BigTimesPow10(x, n) == IF n = 0 THEN x ELSE BigTimesPow10(BigMulAdd(x, 10, 0), n - 1)

\* x \div 5^k, and whether the division left a remainder.
RECURSIVE BigDivPow5(_, _, _)
BigDivPow5(x, k, sticky) ==
    IF k = 0 THEN [q |-> x, sticky |-> sticky]
    ELSE IF k = 1 THEN [q |-> BigDiv(x, 5).q, sticky |-> sticky \/ BigDiv(x, 5).r # 0]
    ELSE BigDivPow5(BigDiv(x, 25).q, k - 2, sticky \/ BigDiv(x, 25).r # 0)

RECURSIVE BigDecimalValue(_, _, _)
BigDecimalValue(s, i, acc) ==
    IF i > Len(s) THEN acc ELSE BigDecimalValue(s, i + 1, BigMulAdd(acc, 10, s[i] - 48))

\* The value of a digit character in a radix, or the radix itself for a
\* character that is no digit of it.
DigitOf(c, radix) ==
    LET v == CASE c \in 48..57  -> c - 48
               [] c \in 65..70  -> c - 55
               [] c \in 97..102 -> c - 87
               [] OTHER         -> radix
    IN  IF v < radix THEN v ELSE radix

RECURSIVE RadixValue(_, _, _, _)
RadixValue(s, i, radix, acc) ==
    IF i > Len(s) THEN acc
    ELSE RadixValue(s, i + 1, radix, BigMulAdd(acc, radix, DigitOf(s[i], radix)))

\* The number of decimal digits s has from position i on.
RECURSIVE DigitRun(_, _)
DigitRun(s, i) == IF i <= Len(s) /\ IsDigit(s[i]) THEN 1 + DigitRun(s, i + 1) ELSE 0

\* The number of "0" characters that start and that end s.
RECURSIVE LeadingZeros(_)
LeadingZeros(s) == IF s # <<>> /\ Head(s) = 48 THEN 1 + LeadingZeros(Tail(s)) ELSE 0

RECURSIVE TrailingZeros(_)
TrailingZeros(s) ==
    IF s # <<>> /\ s[Len(s)] = 48 THEN 1 + TrailingZeros(SubSeq(s, 1, Len(s) - 1)) ELSE 0

\* The value of at most nine decimal digits as a native integer.
RECURSIVE SmallValue(_, _)
SmallValue(s, acc) == IF s = <<>> THEN acc ELSE SmallValue(Tail(s), 10 * acc + Head(s) - 48)

\* d / 10^k = (d * 2^(24 n) \div 5^k) * 2^(-24 n - k), with a quotient of 56
\* bits at least and the remainder as the sticky bit.
RoundQuotient(neg, dq, n, k) == RoundBinary(neg, dq.q, 0 - 24 * n - k, dq.sticky)

RoundFraction(neg, d, k, n) ==
    RoundQuotient(neg, BigDivPow5(Zeros(n) \o BigDecimalValue(d, 1, <<>>), k, FALSE), n, k)

\* The double nearest to d * 10^e for a significand d of decimal digits
\* without leading or trailing zeros, as Number(text) rounds it: every digit
\* counts.  A number of 10^309 and more is beyond the largest double and
\* one below 10^-330 is nearer to 0 than to the smallest.
RoundDecimal(neg, d, e) ==
    IF d = <<>> THEN JsNumber(neg, Zero)
    ELSE IF e + Len(d) > 309 THEN Infinity(neg)
    ELSE IF e + Len(d) < -330 THEN JsNumber(neg, Zero)
    ELSE IF e >= 0
         THEN RoundBinary(neg, BigTimesPow10(BigDecimalValue(d, 1, <<>>), e), 0, FALSE)
    ELSE RoundFraction(neg, d, -e, (3 * (-e) + 55) \div 24 + 1)

\* The significand digits s without the zeros at their ends, times 10^e.
Significand(neg, s, e) ==
    RoundDecimal(neg,
                 SubSeq(s, LeadingZeros(s) + 1, Len(s) - TrailingZeros(s)),
                 IF LeadingZeros(s) = Len(s) THEN 0 ELSE e + TrailingZeros(s))

\* The value of the exponent digits s; a long exponent is beyond every double.
ExponentValue(s) ==
    IF Len(s) - LeadingZeros(s) > 6 THEN 999999
    ELSE SmallValue(SubSeq(s, LeadingZeros(s) + 1, Len(s)), 0)

\* The exponent part of u from position r on: nothing, or e or E, an
\* optional sign and digits to the end of the text.  ok tells whether it is
\* well formed, e is its value.
ExponentPart(u, r) ==
    IF r = Len(u) + 1 THEN [ok |-> TRUE, e |-> 0]
    ELSE IF r > Len(u) \/ u[r] \notin {69, 101} THEN [ok |-> FALSE, e |-> 0]
    ELSE IF r + 1 <= Len(u) /\ u[r + 1] \in {43, 45}
         THEN [ok |-> DigitRun(u, r + 2) >= 1 /\ r + 1 + DigitRun(u, r + 2) = Len(u),
               e  |-> (IF u[r + 1] = 45 THEN -1 ELSE 1)
                          * ExponentValue(SubSeq(u, r + 2, Len(u)))]
         ELSE [ok |-> DigitRun(u, r + 1) >= 1 /\ r + DigitRun(u, r + 1) = Len(u),
               e  |-> ExponentValue(SubSeq(u, r + 1, Len(u)))]

\* An unsigned decimal literal with n1 digits before and n2 digits after
\* its point (point tells whether it has one), then an exponent part.
DecimalParts(neg, u, n1, point, n2) ==
    IF n1 + n2 = 0 \/ ~ExponentPart(u, n1 + (IF point THEN 1 + n2 ELSE 0) + 1).ok
    THEN NaN
    ELSE Significand(neg,
                     SubSeq(u, 1, n1) \o SubSeq(u, n1 + 2, n1 + 1 + n2),
                     ExponentPart(u, n1 + (IF point THEN 1 + n2 ELSE 0) + 1).e - n2)

\* StrUnsignedDecimalLiteral: Infinity, or digits with an optional point
\* and exponent.
DecimalLiteral(neg, u) ==
    IF u = <<73, 110, 102, 105, 110, 105, 116, 121>> THEN Infinity(neg)
    ELSE IF DigitRun(u, 1) + 1 <= Len(u) /\ u[DigitRun(u, 1) + 1] = 46
         THEN DecimalParts(neg, u, DigitRun(u, 1), TRUE, DigitRun(u, DigitRun(u, 1) + 2))
         ELSE DecimalParts(neg, u, DigitRun(u, 1), FALSE, 0)

\* The radix of a text that starts with 0x, 0b or 0o in either case, or 10.
RadixOf(s) ==
    IF Len(s) < 2 \/ s[1] # 48 THEN 10
    ELSE CASE s[2] \in {88, 120} -> 16
           [] s[2] \in {66, 98}  -> 2
           [] s[2] \in {79, 111} -> 8
           [] OTHER              -> 10

\* Number(text) for a text without white space at its ends
\* (StringNumericLiteral): blank text is 0; a binary, octal or hexadecimal
\* integer takes no sign; a decimal literal may have a sign, a fraction and
\* an exponent; any other text is NaN.
TextToNumber(s) ==
    IF s = <<>> THEN JsNumber(FALSE, Zero)
    ELSE IF RadixOf(s) # 10
         THEN IF Len(s) > 2 /\ \A i \in 3..Len(s) : DigitOf(s[i], RadixOf(s)) < RadixOf(s)
              THEN RoundBinary(FALSE, Strip(RadixValue(s, 3, RadixOf(s), <<>>)), 0, FALSE)
              ELSE NaN
    ELSE IF s[1] \in {43, 45}
         THEN DecimalLiteral(s[1] = 45, SubSeq(s, 2, Len(s)))
         ELSE DecimalLiteral(FALSE, s)

\* Number(buffer): the buffer's bytes read as UTF-8 text, then as a numeric
\* literal.  A byte that is part of no character reads as U+FFFD, which no
\* literal holds.
BufferToNumber(b) == TextToNumber(TrimRight(TrimLeft(b)))

\* The implicit conversion of an operand of / and - and of a Buffer write.
\* A BN converts through its decimal toString().
ToNumber(v) ==
    CASE v.t = "number" -> v
      [] v.t = "BN"     -> JsNumber(v.neg /\ v.w # Zero, RoundDouble(v.w))
      [] v.t = "Buffer" -> BufferToNumber(v.b)
      [] OTHER          -> NaN

-----------------------------------------------------------------------------
(* buffer-layout: layouts are records; encode returns the bytes written    *)
(* into the layout's region of a zero-filled buffer and the length encode  *)
(* reports; decode reads from a buffer at an offset.                       *)

u8(property) == [kind |-> "u8", property |-> property, length |-> 1, fields |-> <<>>]

u32(property) == [kind |-> "u32", property |-> property, length |-> 4, fields |-> <<>>]

nu64(property) == [kind |-> "nu64", property |-> property, length |-> 8, fields |-> <<>>]

ns64(property) == [kind |-> "ns64", property |-> property, length |-> 8, fields |-> <<>>]

blob(length, property) ==
    [kind |-> "blob", property |-> property, length |-> length, fields |-> <<>>]

struct(fields, property) ==
    [kind |-> "struct", property |-> property, length |-> 0, fields |-> fields]

RECURSIVE SumSpans(_, _)
RECURSIVE Span(_)
Span(l) == IF l.kind = "struct" THEN SumSpans(l.fields, 1) ELSE l.length
SumSpans(fields, i) ==
    IF i > Len(fields) THEN 0 ELSE Span(fields[i]) + SumSpans(fields, i + 1)

Wrote(bytes, n) == [ok |-> TRUE, bytes |-> bytes, wrote |-> n, err |-> "none"]

Thrown(e) == [ok |-> FALSE, bytes |-> <<>>, wrote |-> 0, err |-> e]

\* x < 0; -0 is not below 0.
IsNegative(x) == x.neg /\ (x.inf \/ x.w # Zero)

\* The integer part of the magnitude of a finite x below 2^72.
IntegerPart(x) == IF x.e < 0 THEN ToWords(BigShiftRight(x.w, -x.e)) ELSE x.w

\* The range check of the Buffer writes, value > max || value < 0, for a
\* number that is not NaN.
OutOfRange(x, max) ==
    \/ x.inf
    \/ x.e > 0
    \/ IsNegative(x)
    \/ WordsLess(max, IntegerPart(x))
    \/ x.e < 0 /\ IntegerPart(x) = max

\* b.writeUInt8(x, offset): NaN is written as 0, a number outside the width
\* is refused and a fraction is dropped.
WriteUInt8(x) ==
    IF x.nan THEN Wrote(<<0>>, 1)
    ELSE IF OutOfRange(x, NatOf(255)) THEN Thrown("RangeError")
         ELSE Wrote(<<IntegerPart(x)[1]>>, 1)

\* b.writeUInt32LE(x, offset).
WriteUInt32LE(x) ==
    IF x.nan THEN Wrote(Zeros(4), 4)
    ELSE IF OutOfRange(x, Words(0, 255, W - 1)) THEN Thrown("RangeError")
         ELSE Wrote(SubSeq(LE64(IntegerPart(x)), 1, 4), 4)

\* lo32 of divmodInt64(x) = x - floor(x / 2^32) * 2^32 keeps the fraction
\* of x: it is above 2^32 - 1 when x has a fraction and the low 32 bits of
\* its integer part are all set.
LowOutOfRange(x) ==
    /\ x.e < 0
    /\ IntegerPart(x)[1] = W - 1
    /\ IntegerPart(x)[2] % 256 = 255

\* divmodInt64(x), then writeUInt32LE of lo32 and of hi32: hi32 is out of
\* range for x < 0 and for x >= 2^64; for an infinity lo32 is NaN and hi32
\* the infinity.
WriteNearUInt64(x) ==
    IF x.nan THEN Wrote(Zeros(8), 8)
    ELSE IF OutOfRange(x, Words(65535, W - 1, W - 1)) THEN Thrown("RangeError")
    ELSE IF LowOutOfRange(x) THEN Thrown("RangeError")
         ELSE Wrote(LE64(IntegerPart(x)), 8)

\* -hi32 * 2^32 of divmodInt64(x) for x < 0, with hi32 = floor(x / 2^32):
\* the multiple of 2^32 at or above the magnitude of x, whose integer part
\* is i.
HighBound(x, i) ==
    IF x.e = 0 /\ i[1] = 0 /\ i[2] % 256 = 0 THEN i
    ELSE IF i[2] - (i[2] % 256) + 256 = W THEN <<0, 0, i[3] + 1>>
    ELSE <<0, i[2] - (i[2] % 256) + 256, i[3]>>

\* lo32 of divmodInt64(x) for x < 0: x - hi32 * 2^32 is a subtraction of
\* doubles, and its result the double nearest to the difference, which
\* has lost the low bits of a fraction of x that do not fit beside the
\* integer part of lo32.
LowOfNegative(x) ==
    RoundBinary(FALSE,
                BigSub(BigShiftLeft(Strip(HighBound(x, IntegerPart(x))), -x.e),
                       Strip(x.w)),
                x.e, FALSE)

\* writeUInt32LE of lo32 and writeInt32LE of hi32 = -high / 2^32 >= -2^31.
WriteSplit(lo, high) ==
    IF lo.ok THEN Wrote(lo.bytes \o SubSeq(LE64(WordsNeg64(high)), 5, 8), 8)
    ELSE lo

\* divmodInt64(x), then writeUInt32LE of lo32 and writeInt32LE of hi32.
\* lo32 keeps the fraction of x.  For x < 0, hi32 = floor(x / 2^32) is
\* below -2^31 when x is below -2^63, and lo32 is the rounded difference
\* x - hi32 * 2^32, refused when it is above 2^32 - 1.
WriteNearInt64(x) ==
    IF x.nan THEN Wrote(Zeros(8), 8)
    ELSE IF x.inf \/ x.e > 0 THEN Thrown("RangeError")
    ELSE IF ~IsNegative(x)
         THEN IF IntegerPart(x)[3] < 32768 /\ ~LowOutOfRange(x)
              THEN Wrote(LE64(IntegerPart(x)), 8)
              ELSE Thrown("RangeError")
    ELSE IF WordsLess(Words(32768, 0, 0), IntegerPart(x)) THEN Thrown("RangeError")
         ELSE WriteSplit(WriteUInt32LE(LowOfNegative(x)),
                         HighBound(x, IntegerPart(x)))

\* UInt.encode (b.writeUIntLE(src, offset, span), span 1 or 4),
\* NearUInt64.encode and NearInt64.encode, on the number x their src is
\* converted to.
EncodeNumber(l, x) ==
    CASE l.kind = "u8"   -> WriteUInt8(x)
      [] l.kind = "u32"  -> WriteUInt32LE(x)
      [] l.kind = "nu64" -> WriteNearUInt64(x)
      [] l.kind = "ns64" -> WriteNearInt64(x)

\* Blob.encode: src must be a Buffer of exactly the blob's length.
EncodeBlob(l, src) ==
    IF src.t = "Buffer" /\ Len(src.b) = l.length
    THEN Wrote(src.b, l.length)
    ELSE Thrown("TypeError")

\* The running result of Structure.encode after one more field: the field's
\* bytes fill its span, and the length reported so far is the field's
\* offset plus what the field wrote.
AppendField(acc, span, r) ==
    IF r.ok
    THEN Wrote(acc.bytes \o r.bytes \o Zeros(span - Len(r.bytes)),
               Len(acc.bytes) + r.wrote)
    ELSE r

RECURSIVE Encode(_, _)
RECURSIVE EncodeFrom(_, _, _, _)
\* One field of Structure.encode: a field whose property the source lacks
\* is skipped and its bytes stay zero.
EncodeField(fd, fv, acc) ==
    AppendField(acc, Span(fd),
        IF fv.t = "undefined" THEN Wrote(Zeros(Span(fd)), Span(fd))
        ELSE Encode(fd, fv))

\* Structure.encode: the fields in order; the result is
\* (lastOffset + lastWrote) - firstOffset.  src[fd.property] is read before
\* the value is tested, so an undefined src throws at the first field.
EncodeFrom(fields, src, i, acc) ==
    IF i > Len(fields) \/ ~acc.ok THEN acc
    ELSE IF src.t = "undefined" THEN Thrown("TypeError")
    ELSE EncodeFrom(fields, src, i + 1,
             EncodeField(fields[i], Prop(src, fields[i].property), acc))

\* layout.encode(src, b): a blob copies a Buffer, a struct encodes its
\* fields, and every other layout writes the number src converts to.
Encode(l, src) ==
    CASE l.kind = "blob"   -> EncodeBlob(l, src)
      [] l.kind = "struct" -> EncodeFrom(l.fields, src, 1, Wrote(<<>>, 0))
      [] OTHER             -> EncodeNumber(l, ToNumber(src))

Decoded(v) == [ok |-> TRUE, val |-> v, err |-> "none"]

DecodeThrown(e) == [ok |-> FALSE, val |-> Undefined, err |-> e]

\* b.slice(start, end): clamped to the buffer, never throws.
Slice(b, start, end) ==
    LET e == IF end > Len(b) THEN Len(b) ELSE end
    IN  IF start >= e THEN <<>> ELSE SubSeq(b, start + 1, e)

\* UInt.decode, span 1: b.readUInt8(offset).
DecodeU8(b, offset) ==
    IF offset + 1 > Len(b) THEN DecodeThrown("RangeError")
    ELSE Decoded(JsNumber(FALSE, NatOf(b[offset + 1])))

\* UInt.decode, span 4: b.readUInt32LE(offset).
DecodeU32(b, offset) ==
    IF offset + 4 > Len(b) THEN DecodeThrown("RangeError")
    ELSE Decoded(JsNumber(FALSE, FromLE64(SubSeq(b, offset + 1, offset + 4) \o Zeros(4))))

\* NearUInt64.decode: roundedInt64(readUInt32LE(offset + 4), readUInt32LE(offset)).
DecodeNu64(b, offset) ==
    IF offset + 8 > Len(b) THEN DecodeThrown("RangeError")
    ELSE Decoded(JsNumber(FALSE, RoundDouble(FromLE64(SubSeq(b, offset + 1, offset + 8)))))

\* NearInt64.decode: roundedInt64(readInt32LE(offset + 4), readUInt32LE(offset)).
SignedDouble(u) ==
    IF u[3] < 32768 THEN JsNumber(FALSE, RoundDouble(u))
    ELSE JsNumber(TRUE, RoundDouble(WordsNeg64(u)))

DecodeNs64(b, offset) ==
    IF offset + 8 > Len(b) THEN DecodeThrown("RangeError")
    ELSE Decoded(SignedDouble(FromLE64(SubSeq(b, offset + 1, offset + 8))))

DecodeBlob(l, b, offset) == Decoded(Buffer(Slice(b, offset, offset + l.length)))

\* The destination object of Structure.decode after one more field.
AssignField(acc, property, r) ==
    IF r.ok THEN Decoded(Object((property :> r.val) @@ acc.val.f)) ELSE r

RECURSIVE Decode(_, _, _)
RECURSIVE DecodeFrom(_, _, _, _, _)
\* Structure.decode: every field is decoded at the running offset into a
\* fresh destination object.
DecodeFrom(fields, b, offset, i, acc) ==
    IF i > Len(fields) \/ ~acc.ok THEN acc
    ELSE DecodeFrom(fields, b, offset + Span(fields[i]), i + 1,
             AssignField(acc, fields[i].property, Decode(fields[i], b, offset)))

Decode(l, b, offset) ==
    CASE l.kind = "u8"     -> DecodeU8(b, offset)
      [] l.kind = "u32"    -> DecodeU32(b, offset)
      [] l.kind = "nu64"   -> DecodeNu64(b, offset)
      [] l.kind = "ns64"   -> DecodeNs64(b, offset)
      [] l.kind = "blob"   -> DecodeBlob(l, b, offset)
      [] l.kind = "struct" -> DecodeFrom(l.fields, b, offset, 1, Decoded(Object(<<>>)))

-----------------------------------------------------------------------------
(* util/u64 and web3.js values used by the client.                         *)

\* new NumberU64(x): x is a number or a big integer.
NewNumberU64(x) ==
    CASE x.t = "number" /\ ~x.nan /\ ~x.inf /\ x.e <= 0 ->
            BN(IsNegative(x), IntegerPart(x))
      [] x.t = "BN"               -> x
      [] x.t = "throw"            -> x
      [] x.t = "undefined"        -> BN(FALSE, Zero)
      [] OTHER                    -> Throw("Error")

\* NumberU64.toBuffer(): the eight little-endian bytes of an unsigned 64-bit
\* value; a value outside the width is refused.
NumberU64ToBuffer(x) ==
    IF x.t # "BN" THEN Throw("TypeError")
    ELSE IF (x.neg /\ x.w # Zero) \/ ~FitsU64(x.w) THEN Throw("WidthOverflowError")
    ELSE Buffer(LE64(x.w))

\* new NumberU64(x).toBuffer()
ToBufferOf(n) == IF n.t = "throw" THEN n ELSE NumberU64ToBuffer(n)

NewNumberU64ToBuffer(x) == ToBufferOf(NewNumberU64(x))

\* Uint64Layout(property): an eight-byte field filled from a Buffer.
Uint64Layout(property) == blob(8, property)

\* Public keys are numbered; the clock sysvar is a fixed key.
SYSVAR_CLOCK_PUBKEY == 99

\* PublicKey.toBuffer(): 32 bytes, big-endian.
PublicKeyToBuffer(k) == Buffer(Zeros(31) \o <<k>>)

-----------------------------------------------------------------------------
(* layout.ts                                                               *)

PublicKeyLayout(property) == blob(32, property)

U256Layout(property) == blob(32, property)

FixedU256Layout(property) ==
    struct(<<U256Layout("inner"), U256Layout("basePoint")>>, property)

FixedU64Layout(property) ==
    struct(<<nu64("inner"), nu64("basePoint")>>, property)

FeesLayout(property) ==
    struct(<< nu64("adminTradeFeeNumerator"),
              nu64("adminTradeFeeDenominator"),
              nu64("adminWithdrawFeeNumerator"),
              nu64("adminWithdrawFeeDenominator"),
              nu64("tradeFeeNumerator"),
              nu64("tradeFeeDenominator"),
              nu64("withdrawFeeNumerator"),
              nu64("withdrawFeeDenominator") >>, property)

RewardsLayout(property) ==
    struct(<< nu64("tradeRewardNumerator"),
              nu64("tradeRewardDenominator"),
              nu64("tradeRewardCap") >>, property)

\* An oracle layout that places the timestamp right after the period.
OracleLayoutTimestampFirst(property) ==
    struct(<< u32("period"),
              nu64("blockTimestamp"),
              PublicKeyLayout("token0"),
              PublicKeyLayout("token1"),
              U256Layout("price0Cumulative"),
              U256Layout("price1Cumulative"),
              U256Layout("price0Average"),
              U256Layout("price1Average") >>, property)

OracleLayout(property) ==
    struct(<< u32("period"),
              PublicKeyLayout("token0"),
              PublicKeyLayout("token1"),
              U256Layout("price0Cumulative"),
              U256Layout("price1Cumulative"),
              nu64("blockTimestamp"),
              U256Layout("price0Average"),
              U256Layout("price1Average") >>, property)

\* A config layout that places the rewards before the fees.
ConfigInfoLayoutRewardsFirst ==
    struct(<< u8("isInitialized"),
              u8("isPaused"),
              nu64("ampFactor"),
              ns64("futureAdminDeadline"),
              PublicKeyLayout("futureAdminKey"),
              PublicKeyLayout("adminKey"),
              PublicKeyLayout("deltafiMint"),
              RewardsLayout("rewards"),
              FeesLayout("fees") >>, "")

ConfigInfoLayout ==
    struct(<< u8("isInitialized"),
              u8("isPaused"),
              nu64("ampFactor"),
              ns64("futureAdminDeadline"),
              PublicKeyLayout("futureAdminKey"),
              PublicKeyLayout("adminKey"),
              PublicKeyLayout("deltafiMint"),
              FeesLayout("fees"),
              RewardsLayout("rewards") >>, "")

\* The stable swap state of the layout file that also declares ConfigInfoLayout.
StableSwapLayout ==
    struct(<< u8("isInitialized"),
              u8("isPaused"),
              u8("nonce"),
              nu64("initialAmpFactor"),
              nu64("targetAmpFactor"),
              ns64("startRampTs"),
              ns64("stopRampTs"),
              PublicKeyLayout("tokenAccountA"),
              PublicKeyLayout("tokenAccountB"),
              PublicKeyLayout("deltafiToken"),
              PublicKeyLayout("poolMint"),
              PublicKeyLayout("mintA"),
              PublicKeyLayout("mintB"),
              PublicKeyLayout("deltafiMint"),
              PublicKeyLayout("adminFeeAccountA"),
              PublicKeyLayout("adminFeeAccountB"),
              FeesLayout("fees"),
              RewardsLayout("rewards"),
              FixedU64Layout("k"),
              FixedU64Layout("l"),
              u8("r"),
              FixedU64Layout("baseTarget"),
              FixedU64Layout("quoteTarget"),
              FixedU64Layout("baseReserve"),
              FixedU64Layout("quoteReserve"),
              nu64("isOpenTwap"),
              nu64("blockTimestamp"),
              FixedU64Layout("basePriceCumulative"),
              FixedU64Layout("receiveAmount"),
              FixedU64Layout("baseBalance"),
              FixedU64Layout("quoteBalance") >>, "")

\* The stable swap state of lib/client/src/layout.ts (256-bit fixed point).
StableSwapLayoutU256 ==
    struct(<< u8("isInitialized"),
              u8("isPaused"),
              u8("nonce"),
              nu64("initialAmpFactor"),
              nu64("targetAmpFactor"),
              ns64("startRampTs"),
              ns64("stopRampTs"),
              ns64("futureAdminDeadline"),
              PublicKeyLayout("futureAdminAccount"),
              PublicKeyLayout("adminAccount"),
              PublicKeyLayout("tokenAccountA"),
              PublicKeyLayout("tokenAccountB"),
              PublicKeyLayout("tokenPool"),
              PublicKeyLayout("mintA"),
              PublicKeyLayout("mintB"),
              PublicKeyLayout("deltafiTokenAccount"),
              PublicKeyLayout("deltafiTokenMint"),
              PublicKeyLayout("adminFeeAccountA"),
              PublicKeyLayout("adminFeeAccountB"),
              FeesLayout("fees"),
              OracleLayout("oracle"),
              RewardsLayout("rewards"),
              FixedU256Layout("k"),
              FixedU256Layout("l"),
              u8("r"),
              FixedU256Layout("baseTarget"),
              FixedU256Layout("quoteTarget"),
              FixedU256Layout("baseReserve"),
              FixedU256Layout("quoteReserve"),
              nu64("isOpenTwap"),
              nu64("blockTimestamp"),
              FixedU256Layout("basePriceCumulative") >>, "")

-----------------------------------------------------------------------------
(* struct/struct.ts, struct/fees.ts, struct/rewards.ts                     *)

\* new Struct(data, layout)
Struct(data, layout) == [t |-> "Struct", data |-> data, layout |-> layout]

\* The bytes encoded and one byte after them.
Unsliced(r) == IF r.ok THEN Buffer(r.bytes \o <<0>>) ELSE Throw(r.err)

\* A toBuffer that returns one byte more than layout.encode reported.
StructToBufferNoSlice(s) == Unsliced(Encode(s.layout, s.data))

\* data.slice(0, length), or the error layout.encode threw.
Sliced(r) == IF r.ok THEN Buffer(SubSeq(r.bytes, 1, r.wrote)) ELSE Throw(r.err)

\* Struct.toBuffer(): allocate layout.span bytes, encode, slice to the
\* encoded length.
StructToBuffer(s) == Sliced(Encode(s.layout, s.data))

\* new Fees(fees)
Fees(fees) == Struct(fees, FeesLayout(""))

\* Fees.fromBuffer(buf)
FeesFromBuffer(buf) == Decode(FeesLayout(""), buf.b, 0)

\* new Rewards(rewards)
Rewards(rewards) == Struct(rewards, RewardsLayout(""))

\* Rewards.fromBuffer(buf)
RewardsFromBuffer(buf) == Decode(RewardsLayout(""), buf.b, 0)

\* A public key held as a value, where a call site can hand it to a
\* parameter of another type.
PublicKeyValue(k) == [t |-> "PublicKey", key |-> k]

\* x.toBuffer(): the method of whatever x is at run time; a value without
\* the method (undefined, a plain object) makes the call a TypeError.
toBuffer(x) ==
    CASE x.t = "BN" -> NumberU64ToBuffer(x)
      [] x.t = "Struct" -> StructToBuffer(x)
      [] x.t = "PublicKey" -> PublicKeyToBuffer(x.key)
      [] OTHER -> Throw("TypeError")

\* name: value.toBuffer() for each of the names, in the order an object
\* literal lists them.
ToBuffers(names, values) == [i \in DOMAIN names |-> <<names[i], toBuffer(values[i])>>]

-----------------------------------------------------------------------------
(* Instruction encoders: shared shape.                                     *)

\* One entry of an instruction's account list.
Key(pubkey, isSigner, isWritable) ==
    [pubkey |-> pubkey, isSigner |-> isSigner, isWritable |-> isWritable]

RECURSIVE ObjectFrom(_, _, _)
ObjectFrom(pairs, i, f) ==
    IF i > Len(pairs) THEN Object(f)
    ELSE IF pairs[i][2].t = "throw" THEN pairs[i][2]
    ELSE ObjectFrom(pairs, i + 1, (pairs[i][1] :> pairs[i][2]) @@ f)

\* An object literal { name: value, ... }: the values are evaluated in order
\* and the first one that throws ends the evaluation.
ObjectLiteral(pairs) == ObjectFrom(pairs, 1, <<>>)

\* let data = Buffer.alloc(dataLayout.span);
\* const encodeLength = dataLayout.encode({...}, data);
\* and, where the encoder does it, data = data.slice(0, encodeLength).
DataOf(r, sliced) ==
    IF ~r.ok THEN [ok |-> FALSE, data |-> <<>>, err |-> r.err]
    ELSE [ok |-> TRUE,
          data |-> IF sliced THEN SubSeq(r.bytes, 1, r.wrote) ELSE r.bytes,
          err |-> "none"]

EncodeInto(dataLayout, src, sliced) ==
    IF src.t = "throw" THEN [ok |-> FALSE, data |-> <<>>, err |-> src.err]
    ELSE DataOf(Encode(dataLayout, src), sliced)

EncodeData(dataLayout, pairs, sliced) ==
    EncodeInto(dataLayout, ObjectLiteral(pairs), sliced)

\* new TransactionInstruction({ keys, programId, data }), or the error that
\* ended the encoder before it.
TransactionInstruction(keys, programId, d) ==
    IF d.ok
    THEN [ok |-> TRUE, keys |-> keys, programId |-> programId, data |-> d.data,
          err |-> "none"]
    ELSE [ok |-> FALSE, keys |-> <<>>, programId |-> 0, data |-> <<>>, err |-> d.err]

\* A numeric literal or enum member as a JavaScript number.
Num(n) == JsNumber(FALSE, NatOf(n))

-----------------------------------------------------------------------------
(* instructions/admin.ts: the admin family.                                *)

\* A numeric enum: the first member has the given value and every later
\* member one more than the member before it.
Enum(first, names) ==
    [ n \in {names[i] : i \in DOMAIN names} |->
        first + (CHOOSE i \in DOMAIN names : names[i] = n) - 1 ]

AdminInstruction ==
    Enum(99, << "Initialize", "RampA", "StopRamp", "Pause", "Unpause",
                "SetFeeAccount", "ApplyNewAdmin", "CommitNewAdmin",
                "SetNewFees", "SetNewRewards" >>)

\* The members of the enum of instructions.ts numbered without its
\* initializer, from 0.
AdminInstructionUninitialized ==
    Enum(0, << "RampA", "StopRamp", "Pause", "Unpause", "SetFeeAccount",
               "ApplyNewAdmin", "CommitNewAdmin", "SetNewFees", "SetNewRewards" >>)

\* The AdminInstruction enum of instructions.ts, which has no Initialize.
AdminInstructionV1 ==
    Enum(100, << "RampA", "StopRamp", "Pause", "Unpause", "SetFeeAccount",
                 "ApplyNewAdmin", "CommitNewAdmin", "SetNewFees", "SetNewRewards" >>)

createAdminInitializeInstruction(config, adminKey, deltafiMint, ampFactor, fees, rewards, programId) ==
    LET keys == << Key(config, TRUE, FALSE),
                   Key(adminKey, TRUE, FALSE),
                   Key(deltafiMint, FALSE, FALSE) >>
        dataLayout == struct(<< u8("instruction"), nu64("ampFactor"),
                                FeesLayout("fees"), RewardsLayout("rewards") >>, "")
        data == EncodeData(dataLayout,
                    << <<"instruction", Num(AdminInstruction.Initialize)>> >>
                    \o ToBuffers(<<"ampFactor", "fees", "rewards">>,
                                 <<ampFactor, fees, rewards>>),
                    FALSE)
    IN  TransactionInstruction(keys, programId, data)

createRampAInstruction(tokenSwap, authority, adminAccount, targetAmp, stopRampTimestamp, programId) ==
    LET keys == << Key(tokenSwap, TRUE, FALSE),
                   Key(authority, FALSE, FALSE),
                   Key(adminAccount, TRUE, FALSE),
                   Key(SYSVAR_CLOCK_PUBKEY, FALSE, FALSE) >>
        dataLayout == struct(<< u8("instruction"), nu64("targetAmp"),
                                nu64("stopRampTimestamp") >>, "")
        data == EncodeData(dataLayout,
                    << <<"instruction", Num(AdminInstruction.RampA)>> >>
                    \o ToBuffers(<<"targetAmp", "stopRampTimestamp">>,
                                 <<targetAmp, stopRampTimestamp>>),
                    TRUE)
    IN  TransactionInstruction(keys, programId, data)

createStopRampInstruction(tokenSwapAccount, authority, adminAccount, programId) ==
    LET keys == << Key(tokenSwapAccount, TRUE, FALSE),
                   Key(authority, FALSE, FALSE),
                   Key(adminAccount, TRUE, FALSE),
                   Key(SYSVAR_CLOCK_PUBKEY, FALSE, FALSE) >>
        dataLayout == struct(<< u8("instruction") >>, "")
        data == EncodeData(dataLayout,
                    << <<"instruction", Num(AdminInstruction.StopRamp)>> >>, TRUE)
    IN  TransactionInstruction(keys, programId, data)

\* A pause instruction that the pool account alone signs.
createPauseInstructionUnsigned(tokenSwapAccount, authority, adminAccount, programId) ==
    LET keys == << Key(tokenSwapAccount, TRUE, FALSE),
                   Key(authority, FALSE, FALSE),
                   Key(adminAccount, FALSE, FALSE) >>
        dataLayout == struct(<< u8("instruction") >>, "")
        data == EncodeData(dataLayout,
                    << <<"instruction", Num(AdminInstruction.Pause)>> >>, TRUE)
    IN  TransactionInstruction(keys, programId, data)

createPauseInstruction(tokenSwapAccount, authority, adminAccount, programId) ==
    LET keys == << Key(tokenSwapAccount, TRUE, FALSE),
                   Key(authority, FALSE, FALSE),
                   Key(adminAccount, TRUE, FALSE) >>
        dataLayout == struct(<< u8("instruction") >>, "")
        data == EncodeData(dataLayout,
                    << <<"instruction", Num(AdminInstruction.Pause)>> >>, TRUE)
    IN  TransactionInstruction(keys, programId, data)

createUnpauseInstruction(tokenSwapAccount, authority, adminAccount, programId) ==
    LET keys == << Key(tokenSwapAccount, TRUE, FALSE),
                   Key(authority, FALSE, FALSE),
                   Key(adminAccount, TRUE, FALSE) >>
        dataLayout == struct(<< u8("instruction") >>, "")
        data == EncodeData(dataLayout,
                    << <<"instruction", Num(AdminInstruction.Unpause)>> >>, TRUE)
    IN  TransactionInstruction(keys, programId, data)

createSetFeeAccountInstruction(tokenSwapAccount, authority, adminAccount, newFeeAccount, programId) ==
    LET keys == << Key(tokenSwapAccount, TRUE, FALSE),
                   Key(authority, FALSE, FALSE),
                   Key(adminAccount, TRUE, FALSE),
                   Key(newFeeAccount, FALSE, FALSE) >>
        dataLayout == struct(<< u8("instruction") >>, "")
        data == EncodeData(dataLayout,
                    << <<"instruction", Num(AdminInstruction.SetFeeAccount)>> >>, TRUE)
    IN  TransactionInstruction(keys, programId, data)

createApplyNewAdminInstruction(tokenSwapAccount, authority, adminAccount, programId) ==
    LET keys == << Key(tokenSwapAccount, TRUE, FALSE),
                   Key(authority, FALSE, FALSE),
                   Key(adminAccount, TRUE, FALSE),
                   Key(SYSVAR_CLOCK_PUBKEY, FALSE, FALSE) >>
        dataLayout == struct(<< u8("instruction") >>, "")
        data == EncodeData(dataLayout,
                    << <<"instruction", Num(AdminInstruction.ApplyNewAdmin)>> >>, TRUE)
    IN  TransactionInstruction(keys, programId, data)

createCommitNewAdminInstruction(tokenSwapAccount, authority, adminAccount, newAdminAccount, programId) ==
    LET keys == << Key(tokenSwapAccount, TRUE, FALSE),
                   Key(authority, FALSE, FALSE),
                   Key(adminAccount, TRUE, FALSE),
                   Key(newAdminAccount, FALSE, FALSE),
                   Key(SYSVAR_CLOCK_PUBKEY, FALSE, FALSE) >>
        dataLayout == struct(<< u8("instruction") >>, "")
        data == EncodeData(dataLayout,
                    << <<"instruction", Num(AdminInstruction.CommitNewAdmin)>> >>, TRUE)
    IN  TransactionInstruction(keys, programId, data)

createSetNewFeesInstruction(tokenSwapAccount, authority, adminAccount, newFees, programId) ==
    LET keys == << Key(tokenSwapAccount, TRUE, FALSE),
                   Key(authority, FALSE, FALSE),
                   Key(adminAccount, TRUE, FALSE) >>
        dataLayout == struct(<< u8("instruction"), FeesLayout("newFees") >>, "")
        data == EncodeData(dataLayout,
                    << <<"instruction", Num(AdminInstruction.CommitNewAdmin)>> >>
                    \o ToBuffers(<<"newFees">>, <<newFees>>), TRUE)
    IN  TransactionInstruction(keys, programId, data)

createSetNewRewardsInstruction(tokenSwapAccount, authority, adminAccount, newRewards, programId) ==
    LET keys == << Key(tokenSwapAccount, TRUE, FALSE),
                   Key(authority, FALSE, FALSE),
                   Key(adminAccount, TRUE, FALSE) >>
        dataLayout == struct(<< u8("instruction"), RewardsLayout("newRewards") >>, "")
        data == EncodeData(dataLayout,
                    << <<"instruction", Num(AdminInstruction.CommitNewAdmin)>> >>
                    \o ToBuffers(<<"newRewards">>, <<newRewards>>), TRUE)
    IN  TransactionInstruction(keys, programId, data)

-----------------------------------------------------------------------------
(* instructions/admin.ts, second part: the swap family.                    *)

SwapInstruction ==
    Enum(0, << "Initialize", "Swap", "Deposit", "Withdraw", "WithdrawOne" >>)

createInitSwapInstruction(tokenSwap, authority, adminAccount, adminFeeAccountA, adminFeeAccountB, tokenMintA, tokenAccountA, tokenMintB, tokenAccountB, poolTokenMint, poolTokenAccount, rewardTokenAccount, rewardMint, tokenProgramId, nonce, ampFactor, fees, rewards, k, i, isOpenTwap, programId) ==
    LET keys == << Key(tokenSwap, TRUE, FALSE),
                   Key(authority, FALSE, FALSE),
                   Key(adminAccount, FALSE, FALSE),
                   Key(adminFeeAccountA, FALSE, FALSE),
                   Key(adminFeeAccountB, FALSE, FALSE),
                   Key(tokenMintA, FALSE, FALSE),
                   Key(tokenAccountA, FALSE, FALSE),
                   Key(tokenMintB, FALSE, FALSE),
                   Key(tokenAccountB, FALSE, FALSE),
                   Key(poolTokenMint, FALSE, TRUE),
                   Key(poolTokenAccount, FALSE, TRUE),
                   Key(rewardMint, FALSE, FALSE),
                   Key(rewardTokenAccount, FALSE, FALSE),
                   Key(tokenProgramId, FALSE, FALSE) >>
        dataLayout == struct(<< u8("instruction"), u8("nonce"), nu64("ampFactor"),
                                FeesLayout("fees"), nu64("k"), nu64("i"),
                                nu64("isOpenTwap") >>, "")
        data == EncodeData(dataLayout,
                    << <<"instruction", Num(SwapInstruction.Initialize)>>,
                       <<"nonce", nonce>> >>
                    \o ToBuffers(<<"ampFactor", "fees", "rewards", "k", "i", "isOpenTwap">>,
                                 <<ampFactor, fees, rewards, k, i, isOpenTwap>>),
                    FALSE)
    IN  TransactionInstruction(keys, programId, data)

createSwapInstruction(tokenSwap, authority, userSource, poolSource, poolDestination, userDestination, adminDestination, rewardDestination, rewardMint, tokenProgramId, amountIn, minimumAmountOut, swapDirection, programId) ==
    LET keys == << Key(tokenSwap, FALSE, FALSE),
                   Key(authority, FALSE, FALSE),
                   Key(userSource, FALSE, TRUE),
                   Key(poolSource, FALSE, TRUE),
                   Key(poolDestination, FALSE, TRUE),
                   Key(userDestination, FALSE, TRUE),
                   Key(rewardDestination, FALSE, TRUE),
                   Key(rewardMint, FALSE, TRUE),
                   Key(adminDestination, FALSE, TRUE),
                   Key(tokenProgramId, FALSE, FALSE),
                   Key(SYSVAR_CLOCK_PUBKEY, FALSE, FALSE) >>
        dataLayout == struct(<< u8("instruction"), nu64("amountIn"),
                                nu64("minimumAmountOut"), nu64("swapDirection") >>, "")
        data == EncodeData(dataLayout,
                    << <<"instruction", Num(SwapInstruction.Swap)>> >>
                    \o ToBuffers(<<"amountIn", "minimumAmountOut", "swapDirection">>,
                                 <<amountIn, minimumAmountOut, swapDirection>>),
                    FALSE)
    IN  TransactionInstruction(keys, programId, data)

createDepositInstruction(tokenSwap, authority, sourceA, sourceB, intoA, intoB, poolTokenMint, poolTokenAccount, tokenProgramId, tokenAmountA, tokenAmountB, minimumPoolTokenAmount, programId) ==
    LET keys == << Key(tokenSwap, FALSE, FALSE),
                   Key(authority, FALSE, FALSE),
                   Key(sourceA, FALSE, TRUE),
                   Key(sourceB, FALSE, TRUE),
                   Key(intoA, FALSE, TRUE),
                   Key(intoB, FALSE, TRUE),
                   Key(poolTokenMint, FALSE, TRUE),
                   Key(poolTokenAccount, FALSE, TRUE),
                   Key(tokenProgramId, FALSE, FALSE),
                   Key(SYSVAR_CLOCK_PUBKEY, FALSE, FALSE) >>
        dataLayout == struct(<< u8("instruction"), nu64("tokenAmountA"),
                                nu64("tokenAmountB"),
                                nu64("minimumPoolTokenAmount") >>, "")
        data == EncodeData(dataLayout,
                    << <<"instruction", Num(SwapInstruction.Deposit)>> >>
                    \o ToBuffers(<<"tokenAmountA", "tokenAmountB", "minimumPoolTokenAmount">>,
                                 <<tokenAmountA, tokenAmountB, minimumPoolTokenAmount>>),
                    FALSE)
    IN  TransactionInstruction(keys, programId, data)

createWithdrawInstruction(tokenSwap, authority, poolMint, sourcePoolAccount, fromA, fromB, userAccountA, userAccountB, adminFeeAccountA, adminFeeAccountB, tokenProgramId, poolTokenAmount, minimumTokenA, minimumTokenB, programId) ==
    LET keys == << Key(tokenSwap, FALSE, FALSE),
                   Key(authority, FALSE, FALSE),
                   Key(poolMint, FALSE, TRUE),
                   Key(sourcePoolAccount, FALSE, TRUE),
                   Key(fromA, FALSE, TRUE),
                   Key(fromB, FALSE, TRUE),
                   Key(userAccountA, FALSE, TRUE),
                   Key(userAccountB, FALSE, TRUE),
                   Key(adminFeeAccountA, FALSE, TRUE),
                   Key(adminFeeAccountB, FALSE, TRUE),
                   Key(tokenProgramId, FALSE, FALSE) >>
        dataLayout == struct(<< u8("instruction"), nu64("poolTokenAmount"),
                                nu64("minimumTokenA"), nu64("minimumTokenB") >>, "")
        data == EncodeData(dataLayout,
                    << <<"instruction", Num(SwapInstruction.Withdraw)>>,
                       <<"poolTokenAmount", NewNumberU64ToBuffer(poolTokenAmount)>>,
                       <<"minimumTokenA", NewNumberU64ToBuffer(minimumTokenA)>>,
                       <<"minimumTokenB", NewNumberU64ToBuffer(minimumTokenB)>> >>,
                    FALSE)
    IN  TransactionInstruction(keys, programId, data)

createWithdrawOneInstruction(tokenSwap, authority, poolMint, sourcePool, base, quote, userDestination, adminDestination, tokenProgramId, poolTokenAmount, minimumTokenAmount, programId) ==
    LET keys == << Key(tokenSwap, FALSE, FALSE),
                   Key(authority, FALSE, FALSE),
                   Key(poolMint, FALSE, TRUE),
                   Key(sourcePool, FALSE, TRUE),
                   Key(base, FALSE, TRUE),
                   Key(quote, FALSE, TRUE),
                   Key(userDestination, FALSE, TRUE),
                   Key(adminDestination, FALSE, TRUE),
                   Key(tokenProgramId, FALSE, FALSE),
                   Key(SYSVAR_CLOCK_PUBKEY, FALSE, FALSE) >>
        dataLayout == struct(<< u8("instruction"), nu64("poolTokenAmount"),
                                nu64("minimumTokenAmount") >>, "")
        data == EncodeData(dataLayout,
                    << <<"instruction", Num(SwapInstruction.WithdrawOne)>> >>
                    \o ToBuffers(<<"poolTokenAmount", "minimumTokenA">>,
                                 <<poolTokenAmount, minimumTokenAmount>>),
                    FALSE)
    IN  TransactionInstruction(keys, programId, data)

-----------------------------------------------------------------------------
(* instructions.ts: the first swap encoders and the farm family.           *)

FeeNames ==
    << "adminTradeFeeNumerator", "adminTradeFeeDenominator",
       "adminWithdrawFeeNumerator", "adminWithdrawFeeDenominator",
       "tradeFeeNumerator", "tradeFeeDenominator",
       "withdrawFeeNumerator", "withdrawFeeDenominator" >>

\* Uint64Layout("adminTradeFeeNumerator"), ..., Uint64Layout("withdrawFeeDenominator")
FeeFieldLayouts == [i \in 1..Len(FeeNames) |-> Uint64Layout(FeeNames[i])]

\* adminTradeFeeNumerator: new NumberU64(fees.adminTradeFeeNumerator).toBuffer(), ...
FeeFieldValues(fees) ==
    [i \in 1..Len(FeeNames) |->
        <<FeeNames[i], NewNumberU64ToBuffer(Prop(fees, FeeNames[i]))>>]

createInitSwapInstructionV1(tokenSwapAccount, authority, adminAccount, adminFeeAccountA, adminFeeAccountB, tokenMintA, tokenAccountA, tokenMintB, tokenAccountB, poolTokenMint, poolTokenAccount, swapProgramId, tokenProgramId, nonce, ampFactor, fees) ==
    LET keys == << Key(tokenSwapAccount, FALSE, TRUE),
                   Key(authority, FALSE, FALSE),
                   Key(adminAccount, FALSE, FALSE),
                   Key(adminFeeAccountA, FALSE, FALSE),
                   Key(adminFeeAccountB, FALSE, FALSE),
                   Key(tokenMintA, FALSE, FALSE),
                   Key(tokenAccountA, FALSE, FALSE),
                   Key(tokenMintB, FALSE, FALSE),
                   Key(tokenAccountB, FALSE, FALSE),
                   Key(poolTokenMint, FALSE, TRUE),
                   Key(poolTokenAccount, FALSE, TRUE),
                   Key(tokenProgramId, FALSE, FALSE) >>
        dataLayout == struct(<< u8("instruction"), u8("nonce"),
                                Uint64Layout("ampFactor") >> \o FeeFieldLayouts, "")
        data == EncodeData(dataLayout,
                    << <<"instruction", Num(0)>>,
                       <<"nonce", nonce>>,
                       <<"ampFactor", NewNumberU64ToBuffer(ampFactor)>> >>
                    \o FeeFieldValues(fees), TRUE)
    IN  TransactionInstruction(keys, swapProgramId, data)

swapInstruction(tokenSwap, authority, userSource, poolSource, poolDestination, userDestination, adminDestination, swapProgramId, tokenProgramId, amountIn, minimumAmountOut) ==
    LET dataLayout == struct(<< u8("instruction"), Uint64Layout("amountIn"),
                                Uint64Layout("minimumAmountOut") >>, "")
        data == EncodeData(dataLayout,
                    << <<"instruction", Num(1)>>,
                       <<"amountIn", NewNumberU64ToBuffer(amountIn)>>,
                       <<"minimumAmountOut", NewNumberU64ToBuffer(minimumAmountOut)>> >>,
                    FALSE)
        keys == << Key(tokenSwap, FALSE, FALSE),
                   Key(authority, FALSE, FALSE),
                   Key(userSource, FALSE, TRUE),
                   Key(poolSource, FALSE, TRUE),
                   Key(poolDestination, FALSE, TRUE),
                   Key(userDestination, FALSE, TRUE),
                   Key(adminDestination, FALSE, TRUE),
                   Key(tokenProgramId, FALSE, FALSE),
                   Key(SYSVAR_CLOCK_PUBKEY, FALSE, FALSE) >>
    IN  TransactionInstruction(keys, swapProgramId, data)

depositInstruction(tokenSwap, authority, sourceA, sourceB, intoA, intoB, poolTokenMint, poolTokenAccount, swapProgramId, tokenProgramId, tokenAmountA, tokenAmountB, minimumPoolTokenAmount) ==
    LET dataLayout == struct(<< u8("instruction"), Uint64Layout("tokenAmountA"),
                                Uint64Layout("tokenAmountB"),
                                Uint64Layout("minimumPoolTokenAmount") >>, "")
        data == EncodeData(dataLayout,
                    << <<"instruction", Num(2)>>,
                       <<"tokenAmountA", NewNumberU64ToBuffer(tokenAmountA)>>,
                       <<"tokenAmountB", NewNumberU64ToBuffer(tokenAmountB)>>,
                       <<"minimumPoolTokenAmount",
                         NewNumberU64ToBuffer(minimumPoolTokenAmount)>> >>, FALSE)
        keys == << Key(tokenSwap, FALSE, FALSE),
                   Key(authority, FALSE, FALSE),
                   Key(sourceA, FALSE, TRUE),
                   Key(sourceB, FALSE, TRUE),
                   Key(intoA, FALSE, TRUE),
                   Key(intoB, FALSE, TRUE),
                   Key(poolTokenMint, FALSE, TRUE),
                   Key(poolTokenAccount, FALSE, TRUE),
                   Key(tokenProgramId, FALSE, FALSE),
                   Key(SYSVAR_CLOCK_PUBKEY, FALSE, FALSE) >>
    IN  TransactionInstruction(keys, swapProgramId, data)

withdrawInstruction(tokenSwap, authority, poolMint, sourcePoolAccount, fromA, fromB, userAccountA, userAccountB, adminFeeAccountA, adminFeeAccountB, swapProgramId, tokenProgramId, poolTokenAmount, minimumTokenA, minimumTokenB) ==
    LET dataLayout == struct(<< u8("instruction"), Uint64Layout("poolTokenAmount"),
                                Uint64Layout("minimumTokenA"),
                                Uint64Layout("minimumTokenB") >>, "")
        data == EncodeData(dataLayout,
                    << <<"instruction", Num(3)>>,
                       <<"poolTokenAmount", NewNumberU64ToBuffer(poolTokenAmount)>>,
                       <<"minimumTokenA", NewNumberU64ToBuffer(minimumTokenA)>>,
                       <<"minimumTokenB", NewNumberU64ToBuffer(minimumTokenB)>> >>,
                    FALSE)
        keys == << Key(tokenSwap, FALSE, FALSE),
                   Key(authority, FALSE, FALSE),
                   Key(poolMint, FALSE, TRUE),
                   Key(sourcePoolAccount, FALSE, TRUE),
                   Key(fromA, FALSE, TRUE),
                   Key(fromB, FALSE, TRUE),
                   Key(userAccountA, FALSE, TRUE),
                   Key(userAccountB, FALSE, TRUE),
                   Key(adminFeeAccountA, FALSE, TRUE),
                   Key(adminFeeAccountB, FALSE, TRUE),
                   Key(tokenProgramId, FALSE, FALSE) >>
    IN  TransactionInstruction(keys, swapProgramId, data)

createInitFarmInstruction(farmAccount, farmBaseAccount, authority, adminAccount, adminFeeAccountPool, tokenMintPool, tokenAccountPool, deltafiTokenMint, deltafiTokenAccount, farmProgramId, tokenProgramId, nonce, fees) ==
    LET keys == << Key(farmBaseAccount, FALSE, TRUE),
                   Key(farmAccount, FALSE, TRUE),
                   Key(authority, FALSE, FALSE),
                   Key(adminAccount, FALSE, FALSE),
                   Key(adminFeeAccountPool, FALSE, FALSE),
                   Key(tokenMintPool, FALSE, FALSE),
                   Key(tokenAccountPool, FALSE, FALSE),
                   Key(deltafiTokenMint, FALSE, TRUE),
                   Key(deltafiTokenAccount, FALSE, TRUE),
                   Key(tokenProgramId, FALSE, FALSE) >>
        dataLayout == struct(<< u8("instruction"), u8("nonce") >> \o FeeFieldLayouts, "")
        data == EncodeData(dataLayout,
                    << <<"instruction", Num(108)>>, <<"nonce", nonce>> >>
                    \o FeeFieldValues(fees), TRUE)
    IN  TransactionInstruction(keys, farmProgramId, data)

\* An enable-user encoder that writes the tag of the admin pause operation.
farmEnableUserInstructionPauseTag(farmAccount, authority, userFarmingAccount, owner, farmProgramId) ==
    LET keys == << Key(farmAccount, FALSE, TRUE),
                   Key(authority, FALSE, FALSE),
                   Key(userFarmingAccount, FALSE, FALSE),
                   Key(owner, FALSE, FALSE) >>
        dataLayout == struct(<< u8("instruction") >>, "")
        data == EncodeData(dataLayout,
                           << <<"instruction", Num(AdminInstruction.Pause)>> >>, TRUE)
    IN  TransactionInstruction(keys, farmProgramId, data)

farmEnableUserInstruction(farmAccount, authority, userFarmingAccount, owner, farmProgramId) ==
    LET keys == << Key(farmAccount, FALSE, TRUE),
                   Key(authority, FALSE, FALSE),
                   Key(userFarmingAccount, FALSE, FALSE),
                   Key(owner, FALSE, FALSE) >>
        dataLayout == struct(<< u8("instruction") >>, "")
        data == EncodeData(dataLayout, << <<"instruction", Num(30)>> >>, TRUE)
    IN  TransactionInstruction(keys, farmProgramId, data)

farmDepositInstruction(farmBaseAccount, farmAccount, authority, adminFeeAccountDeltafi, sourcePool, userFarming, farmPool, deltafiTokenMint, destDeltafi, farmProgramId, tokenProgramId, tokenAmountPool) ==
    LET dataLayout == struct(<< u8("instruction"),
                                Uint64Layout("tokenAmountPool") >>, "")
        data == EncodeData(dataLayout,
                    << <<"instruction", Num(31)>>,
                       <<"tokenAmountPool", NewNumberU64ToBuffer(tokenAmountPool)>> >>,
                    FALSE)
        keys == << Key(farmBaseAccount, FALSE, TRUE),
                   Key(farmAccount, FALSE, TRUE),
                   Key(authority, FALSE, FALSE),
                   Key(adminFeeAccountDeltafi, FALSE, FALSE),
                   Key(sourcePool, FALSE, FALSE),
                   Key(userFarming, FALSE, FALSE),
                   Key(farmPool, FALSE, FALSE),
                   Key(deltafiTokenMint, FALSE, TRUE),
                   Key(destDeltafi, FALSE, FALSE),
                   Key(tokenProgramId, FALSE, FALSE),
                   Key(SYSVAR_CLOCK_PUBKEY, FALSE, FALSE) >>
    IN  TransactionInstruction(keys, farmProgramId, data)

farmWithdrawInstruction(farmBaseAccount, farmAccount, authority, adminFeeAccountDeltafi, userPoolAccount, userFarming, tokenMintPool, deltafiTokenMint, deltafiTokenAccount, farmProgramId, tokenProgramId, tokenAmountPool) ==
    LET keys == << Key(farmBaseAccount, FALSE, TRUE),
                   Key(farmAccount, FALSE, TRUE),
                   Key(authority, FALSE, FALSE),
                   Key(adminFeeAccountDeltafi, FALSE, FALSE),
                   Key(userPoolAccount, FALSE, FALSE),
                   Key(userFarming, FALSE, FALSE),
                   Key(tokenMintPool, FALSE, FALSE),
                   Key(deltafiTokenMint, FALSE, TRUE),
                   Key(deltafiTokenAccount, FALSE, TRUE),
                   Key(tokenProgramId, FALSE, FALSE),
                   Key(SYSVAR_CLOCK_PUBKEY, FALSE, FALSE) >>
        dataLayout == struct(<< u8("instruction"),
                                Uint64Layout("tokenAmountPool") >>, "")
        data == EncodeData(dataLayout,
                    << <<"instruction", Num(32)>>,
                       <<"tokenAmountPool", tokenAmountPool>> >>, FALSE)
    IN  TransactionInstruction(keys, farmProgramId, data)

farmEmergencyWithdrawInstruction(farmBaseAccount, farmAccount, authority, adminFeeAccountDeltafi, userPoolAccount, userFarming, tokenMintPool, deltafiTokenMint, deltafiTokenAccount, farmProgramId, tokenProgramId) ==
    LET keys == << Key(farmBaseAccount, FALSE, TRUE),
                   Key(farmAccount, FALSE, TRUE),
                   Key(authority, FALSE, FALSE),
                   Key(adminFeeAccountDeltafi, FALSE, FALSE),
                   Key(userPoolAccount, FALSE, FALSE),
                   Key(userFarming, FALSE, FALSE),
                   Key(tokenMintPool, FALSE, FALSE),
                   Key(deltafiTokenMint, FALSE, TRUE),
                   Key(deltafiTokenAccount, FALSE, TRUE),
                   Key(tokenProgramId, FALSE, FALSE),
                   Key(SYSVAR_CLOCK_PUBKEY, FALSE, FALSE) >>
        dataLayout == struct(<< u8("instruction") >>, "")
        data == EncodeData(dataLayout, << <<"instruction", Num(33)>> >>, FALSE)
    IN  TransactionInstruction(keys, farmProgramId, data)

farmPrintPendingDeltafiInstruction(farmAccount, authority, adminAccount, adminFeeAccountPool, tokenMintPool, tokenAccountPool, deltafiTokenMint, deltafiTokenAccount, farmProgramId, tokenProgramId, nonce, fees) ==
    LET keys == << Key(farmAccount, FALSE, TRUE),
                   Key(authority, FALSE, FALSE),
                   Key(adminAccount, FALSE, FALSE),
                   Key(adminFeeAccountPool, FALSE, FALSE),
                   Key(tokenMintPool, FALSE, FALSE),
                   Key(tokenAccountPool, FALSE, FALSE),
                   Key(deltafiTokenMint, FALSE, TRUE),
                   Key(deltafiTokenAccount, FALSE, TRUE),
                   Key(tokenProgramId, FALSE, FALSE) >>
        dataLayout == struct(<< u8("instruction"), u8("nonce") >> \o FeeFieldLayouts, "")
        data == EncodeData(dataLayout,
                    << <<"instruction", Num(34)>>, <<"nonce", nonce>> >>
                    \o FeeFieldValues(fees), TRUE)
    IN  TransactionInstruction(keys, farmProgramId, data)

-----------------------------------------------------------------------------
(* constants.ts                                                            *)

DEFAULT_FEE_NUMERATOR == 0

DEFAULT_FEE_DENOMINATOR == 1000

\* An object whose properties FeeNames[1..8] hold vals[1..8].
FeesObject(vals) ==
    Object([n \in {FeeNames[i] : i \in DOMAIN FeeNames} |->
               vals[CHOOSE i \in DOMAIN FeeNames : FeeNames[i] = n]])

DEFAULT_FEES ==
    FeesObject(<< BN(FALSE, NatOf(DEFAULT_FEE_NUMERATOR)),
                  BN(FALSE, NatOf(DEFAULT_FEE_DENOMINATOR)),
                  BN(FALSE, NatOf(DEFAULT_FEE_NUMERATOR)),
                  BN(FALSE, NatOf(DEFAULT_FEE_DENOMINATOR)),
                  BN(FALSE, NatOf(1)),
                  BN(FALSE, NatOf(4)),
                  BN(FALSE, NatOf(DEFAULT_FEE_NUMERATOR)),
                  BN(FALSE, NatOf(DEFAULT_FEE_DENOMINATOR)) >>)

DEFAULT_REWARD_NUMERATOR == 1

DEFAULT_REWARD_DENOMINATOR == 1000

DEFAULT_REWARD_CAP == 100

RewardNames == << "tradeRewardNumerator", "tradeRewardDenominator", "tradeRewardCap" >>

RewardsObject(vals) ==
    Object([n \in {RewardNames[i] : i \in DOMAIN RewardNames} |->
               vals[CHOOSE i \in DOMAIN RewardNames : RewardNames[i] = n]])

DEFAULT_REWARDS ==
    RewardsObject(<< BN(FALSE, NatOf(DEFAULT_REWARD_NUMERATOR)),
                     BN(FALSE, NatOf(DEFAULT_REWARD_DENOMINATOR)),
                     BN(FALSE, NatOf(DEFAULT_REWARD_CAP)) >>)

AMP_FACTOR == 100

-----------------------------------------------------------------------------
(* The arguments the callers supply.                                       *)

\* Public keys handed to one call are numbered upwards from a base.
MaxShift == 1

\* Program identifiers 200 .. 200 + MaxProgram.
MaxProgram == 1

ProgramIds == { 200 + p : p \in 0..MaxProgram }

\* The i-th public key argument of a call whose keys start after s.
KeyArg(s, i) == s + i

KeyArgs(s, n) == [i \in 1..n |-> KeyArg(s, i)]

\* 2^53 + 1: the first integer a double cannot hold.
Unsafe53 == Words(32, 0, 1)

\* 2^64 - 1 and 2^64.
MaxU64 == Words(65535, W - 1, W - 1)

Over64 == Words(65536, 0, 0)

\* The value whose eight little-endian bytes are the text "12345678".
DigitText == FromLE64(<<49, 50, 51, 52, 53, 54, 55, 56>>)

AmountWords ==
    { Zero, NatOf(1), NatOf(100000), Unsafe53, DigitText, MaxU64, Over64 }

\* NumberU64 instances: the amounts above and -1.
U64Args == { BN(FALSE, w) : w \in AmountWords } \cup { BN(TRUE, NatOf(1)) }

\* number | NumberU64 arguments.
AmountArgs == U64Args \cup { Num(1000), JsNumber(TRUE, NatOf(1)) }

\* A short selection for arguments that enter alongside several others.
FewU64Args == { BN(FALSE, Zero), BN(FALSE, NatOf(100000)) }

NonceArgs == { Num(0), Num(255) }

\* DEFAULT_FEES with one field replaced.
FeesWith(k, v) ==
    Object([DEFAULT_FEES.f EXCEPT ![FeeNames[k]] = v])

\* DEFAULT_FEES without one field.
FeesWithout(k) ==
    Object([n \in DOMAIN DEFAULT_FEES.f \ {FeeNames[k]} |-> DEFAULT_FEES.f[n]])

RewardsWith(k, v) ==
    Object([DEFAULT_REWARDS.f EXCEPT ![RewardNames[k]] = v])

\* IFees values handed to new Fees(...).
FeesArgs ==
    {DEFAULT_FEES, FeesWith(5, BN(TRUE, NatOf(1)))}
        \cup { FeesWith(5, BN(FALSE, w)) : w \in {Unsafe53, MaxU64, Over64} }

RewardsArgs ==
    {DEFAULT_REWARDS} \cup { RewardsWith(3, BN(FALSE, w)) : w \in {Unsafe53, Over64} }

\* The Fees of ./fees taken by the encoders of instructions.ts: plain numbers.
NumericFees(fees) ==
    Object([n \in DOMAIN fees.f |-> JsNumber(fees.f[n].neg, fees.f[n].w)])

NumericFeesArgs ==
    { NumericFees(DEFAULT_FEES), NumericFees(FeesWith(5, BN(FALSE, NatOf(100000)))),
      NumericFees(FeesWith(5, BN(FALSE, Over64))),
      NumericFees(FeesWith(5, BN(TRUE, NatOf(1)))) }

-----------------------------------------------------------------------------
(* The client session: one call at a time; `last` holds the call that has  *)
(* returned (its name, its arguments, its result) until the caller drops   *)
(* it.  `ledger` is the chain's account store.                             *)

NoCall == [op |-> "none"]

NoAccount == [exists |-> FALSE]

Addresses == 1..2

\* The caller is done with the result.
Return ==
    /\ last.op # "none"
    /\ last' = NoCall
    /\ UNCHANGED <<ledger, heap, tasks, objects>>

\* The invocations that may be in flight at once.
Callers == {"a", "b"}

\* The buffers Buffer.alloc can hand out, and one that is not in use.
BufferIds == 1..Cardinality(Callers)

FreeBuffer == [used |-> FALSE, b |-> <<>>]

NoBuffers == [i \in BufferIds |-> FreeBuffer]

IdleTask == [pc |-> "idle"]

\* The fee and reward objects a caller holds and hands to new Fees(...) and
\* new Rewards(...); a Struct keeps the object it was given, not a copy.
CallerObjects == [fees |-> DEFAULT_FEES, rewards |-> DEFAULT_REWARDS]

NoTasks == [c \in Callers |-> IdleTask]

Init ==
    /\ ledger = [a \in Addresses |-> NoAccount]
    /\ last = NoCall
    /\ heap = NoBuffers
    /\ tasks = NoTasks
    /\ objects = CallerObjects

-----------------------------------------------------------------------------
(* Calls of the admin family (instructions/admin.ts).                      *)

CallAdminInitialize ==
    /\ last.op = "none"
    /\ \E s \in 0..MaxShift, programId \in ProgramIds, ampFactor \in U64Args,
          fees \in FeesArgs, rewards \in RewardsArgs :
           LET k == KeyArgs(s, 3)
           IN  last' = [op |-> "createAdminInitializeInstruction",
                            args |-> [keys |-> k, programId |-> programId, ampFactor |-> ampFactor,
                                  fees |-> fees, rewards |-> rewards],
                            res |-> createAdminInitializeInstruction(k[1], k[2], k[3], ampFactor,
                                      Fees(fees), Rewards(rewards), programId)]
    /\ UNCHANGED <<ledger, heap, tasks, objects>>

CallRampA ==
    /\ last.op = "none"
    /\ \E s \in 0..MaxShift, programId \in ProgramIds, targetAmp \in U64Args,
          stopRampTimestamp \in U64Args :
           LET k == KeyArgs(s, 3)
           IN  last' = [op |-> "createRampAInstruction",
                            args |-> [keys |-> k, programId |-> programId, targetAmp |-> targetAmp,
                                  stopRampTimestamp |-> stopRampTimestamp],
                            res |-> createRampAInstruction(k[1], k[2], k[3], targetAmp,
                                      stopRampTimestamp, programId)]
    /\ UNCHANGED <<ledger, heap, tasks, objects>>

CallStopRamp ==
    /\ last.op = "none"
    /\ \E s \in 0..MaxShift, programId \in ProgramIds :
           LET k == KeyArgs(s, 3)
           IN  last' = [op |-> "createStopRampInstruction",
                            args |-> [keys |-> k, programId |-> programId],
                            res |-> createStopRampInstruction(k[1], k[2], k[3], programId)]
    /\ UNCHANGED <<ledger, heap, tasks, objects>>

CallPause ==
    /\ last.op = "none"
    /\ \E s \in 0..MaxShift, programId \in ProgramIds :
           LET k == KeyArgs(s, 3)
           IN  last' = [op |-> "createPauseInstruction",
                            args |-> [keys |-> k, programId |-> programId],
                            res |-> createPauseInstruction(k[1], k[2], k[3], programId)]
    /\ UNCHANGED <<ledger, heap, tasks, objects>>

CallUnpause ==
    /\ last.op = "none"
    /\ \E s \in 0..MaxShift, programId \in ProgramIds :
           LET k == KeyArgs(s, 3)
           IN  last' = [op |-> "createUnpauseInstruction",
                            args |-> [keys |-> k, programId |-> programId],
                            res |-> createUnpauseInstruction(k[1], k[2], k[3], programId)]
    /\ UNCHANGED <<ledger, heap, tasks, objects>>

CallSetFeeAccount ==
    /\ last.op = "none"
    /\ \E s \in 0..MaxShift, programId \in ProgramIds :
           LET k == KeyArgs(s, 4)
           IN  last' = [op |-> "createSetFeeAccountInstruction",
                            args |-> [keys |-> k, programId |-> programId],
                            res |-> createSetFeeAccountInstruction(k[1], k[2], k[3], k[4], programId)]
    /\ UNCHANGED <<ledger, heap, tasks, objects>>

CallApplyNewAdmin ==
    /\ last.op = "none"
    /\ \E s \in 0..MaxShift, programId \in ProgramIds :
           LET k == KeyArgs(s, 3)
           IN  last' = [op |-> "createApplyNewAdminInstruction",
                            args |-> [keys |-> k, programId |-> programId],
                            res |-> createApplyNewAdminInstruction(k[1], k[2], k[3], programId)]
    /\ UNCHANGED <<ledger, heap, tasks, objects>>

CallCommitNewAdmin ==
    /\ last.op = "none"
    /\ \E s \in 0..MaxShift, programId \in ProgramIds :
           LET k == KeyArgs(s, 4)
           IN  last' = [op |-> "createCommitNewAdminInstruction",
                            args |-> [keys |-> k, programId |-> programId],
                            res |-> createCommitNewAdminInstruction(k[1], k[2], k[3], k[4], programId)]
    /\ UNCHANGED <<ledger, heap, tasks, objects>>

CallSetNewFees ==
    /\ last.op = "none"
    /\ \E s \in 0..MaxShift, programId \in ProgramIds, newFees \in FeesArgs :
           LET k == KeyArgs(s, 3)
           IN  last' = [op |-> "createSetNewFeesInstruction",
                            args |-> [keys |-> k, programId |-> programId, newFees |-> newFees],
                            res |-> createSetNewFeesInstruction(k[1], k[2], k[3], Fees(newFees),
                                      programId)]
    /\ UNCHANGED <<ledger, heap, tasks, objects>>

CallSetNewRewards ==
    /\ last.op = "none"
    /\ \E s \in 0..MaxShift, programId \in ProgramIds, newRewards \in RewardsArgs :
           LET k == KeyArgs(s, 3)
           IN  last' = [op |-> "createSetNewRewardsInstruction",
                            args |-> [keys |-> k, programId |-> programId, newRewards |-> newRewards],
                            res |-> createSetNewRewardsInstruction(k[1], k[2], k[3],
                                      Rewards(newRewards), programId)]
    /\ UNCHANGED <<ledger, heap, tasks, objects>>

-----------------------------------------------------------------------------
(* Calls of the swap family (instructions/admin.ts, second part).          *)

CallCreateInitSwap ==
    /\ last.op = "none"
    /\ \E s \in 0..MaxShift, programId \in ProgramIds, nonce \in NonceArgs,
          ampFactor \in U64Args, fees \in FeesArgs, rewards \in {DEFAULT_REWARDS},
          k \in FewU64Args, i \in FewU64Args, isOpenTwap \in FewU64Args :
           LET a == KeyArgs(s, 14)
           IN  last' = [op |-> "createInitSwapInstruction",
                            args |-> [keys |-> a, programId |-> programId, nonce |-> nonce,
                                  ampFactor |-> ampFactor, fees |-> fees, rewards |-> rewards,
                                  k |-> k, i |-> i, isOpenTwap |-> isOpenTwap],
                            res |-> createInitSwapInstruction(a[1], a[2], a[3], a[4], a[5], a[6],
                                      a[7], a[8], a[9], a[10], a[11], a[12], a[13], a[14], nonce,
                                      ampFactor, Fees(fees), Rewards(rewards), k, i, isOpenTwap,
                                      programId)]
    /\ UNCHANGED <<ledger, heap, tasks, objects>>

CallCreateSwap ==
    /\ last.op = "none"
    /\ \E s \in 0..MaxShift, programId \in ProgramIds, amountIn \in U64Args,
          minimumAmountOut \in U64Args, swapDirection \in FewU64Args :
           LET a == KeyArgs(s, 10)
           IN  last' = [op |-> "createSwapInstruction",
                            args |-> [keys |-> a, programId |-> programId, amountIn |-> amountIn,
                                  minimumAmountOut |-> minimumAmountOut,
                                  swapDirection |-> swapDirection],
                            res |-> createSwapInstruction(a[1], a[2], a[3], a[4], a[5], a[6], a[7],
                                      a[8], a[9], a[10], amountIn, minimumAmountOut, swapDirection,
                                      programId)]
    /\ UNCHANGED <<ledger, heap, tasks, objects>>

CallCreateDeposit ==
    /\ last.op = "none"
    /\ \E s \in 0..MaxShift, programId \in ProgramIds, tokenAmountA \in U64Args,
          tokenAmountB \in U64Args, minimumPoolTokenAmount \in FewU64Args :
           LET a == KeyArgs(s, 9)
           IN  last' = [op |-> "createDepositInstruction",
                            args |-> [keys |-> a, programId |-> programId, tokenAmountA |-> tokenAmountA,
                                  tokenAmountB |-> tokenAmountB,
                                  minimumPoolTokenAmount |-> minimumPoolTokenAmount],
                            res |-> createDepositInstruction(a[1], a[2], a[3], a[4], a[5], a[6], a[7],
                                      a[8], a[9], tokenAmountA, tokenAmountB, minimumPoolTokenAmount,
                                      programId)]
    /\ UNCHANGED <<ledger, heap, tasks, objects>>

CallCreateWithdraw ==
    /\ last.op = "none"
    /\ \E s \in 0..MaxShift, programId \in ProgramIds, poolTokenAmount \in AmountArgs,
          minimumTokenA \in AmountArgs, minimumTokenB \in FewU64Args :
           LET a == KeyArgs(s, 11)
           IN  last' = [op |-> "createWithdrawInstruction",
                            args |-> [keys |-> a, programId |-> programId,
                                  poolTokenAmount |-> poolTokenAmount,
                                  minimumTokenA |-> minimumTokenA, minimumTokenB |-> minimumTokenB],
                            res |-> createWithdrawInstruction(a[1], a[2], a[3], a[4], a[5], a[6], a[7],
                                      a[8], a[9], a[10], a[11], poolTokenAmount, minimumTokenA,
                                      minimumTokenB, programId)]
    /\ UNCHANGED <<ledger, heap, tasks, objects>>

CallCreateWithdrawOne ==
    /\ last.op = "none"
    /\ \E s \in 0..MaxShift, programId \in ProgramIds, poolTokenAmount \in U64Args,
          minimumTokenAmount \in U64Args :
           LET a == KeyArgs(s, 9)
           IN  last' = [op |-> "createWithdrawOneInstruction",
                            args |-> [keys |-> a, programId |-> programId,
                                  poolTokenAmount |-> poolTokenAmount,
                                  minimumTokenAmount |-> minimumTokenAmount],
                            res |-> createWithdrawOneInstruction(a[1], a[2], a[3], a[4], a[5], a[6],
                                      a[7], a[8], a[9], poolTokenAmount, minimumTokenAmount,
                                      programId)]
    /\ UNCHANGED <<ledger, heap, tasks, objects>>

-----------------------------------------------------------------------------
(* Calls of the encoders of instructions.ts.                               *)

CallInitSwapV1 ==
    /\ last.op = "none"
    /\ \E s \in 0..MaxShift, swapProgramId \in ProgramIds, nonce \in NonceArgs,
          ampFactor \in AmountArgs, fees \in NumericFeesArgs :
           LET a == KeyArgs(s, 12)
           IN  last' = [op |-> "createInitSwapInstructionV1",
                            args |-> [keys |-> a, programId |-> swapProgramId, nonce |-> nonce,
                                  ampFactor |-> ampFactor, fees |-> fees],
                            res |-> createInitSwapInstructionV1(a[1], a[2], a[3], a[4], a[5], a[6],
                                      a[7], a[8], a[9], a[10], a[11], swapProgramId, a[12], nonce,
                                      ampFactor, fees)]
    /\ UNCHANGED <<ledger, heap, tasks, objects>>

CallSwap ==
    /\ last.op = "none"
    /\ \E s \in 0..MaxShift, swapProgramId \in ProgramIds, amountIn \in AmountArgs,
          minimumAmountOut \in AmountArgs :
           LET a == KeyArgs(s, 9)
           IN  last' = [op |-> "swapInstruction",
                            args |-> [keys |-> a, programId |-> swapProgramId, amountIn |-> amountIn,
                                  minimumAmountOut |-> minimumAmountOut],
                            res |-> swapInstruction(a[1], a[2], a[3], a[4], a[5], a[6], a[7],
                                      swapProgramId, a[8], amountIn, minimumAmountOut)]
    /\ UNCHANGED <<ledger, heap, tasks, objects>>

CallDeposit ==
    /\ last.op = "none"
    /\ \E s \in 0..MaxShift, swapProgramId \in ProgramIds, tokenAmountA \in AmountArgs,
          tokenAmountB \in AmountArgs, minimumPoolTokenAmount \in FewU64Args :
           LET a == KeyArgs(s, 9)
           IN  last' = [op |-> "depositInstruction",
                            args |-> [keys |-> a, programId |-> swapProgramId,
                                  tokenAmountA |-> tokenAmountA, tokenAmountB |-> tokenAmountB,
                                  minimumPoolTokenAmount |-> minimumPoolTokenAmount],
                            res |-> depositInstruction(a[1], a[2], a[3], a[4], a[5], a[6], a[7], a[8],
                                      swapProgramId, a[9], tokenAmountA, tokenAmountB,
                                      minimumPoolTokenAmount)]
    /\ UNCHANGED <<ledger, heap, tasks, objects>>

CallWithdraw ==
    /\ last.op = "none"
    /\ \E s \in 0..MaxShift, swapProgramId \in ProgramIds, poolTokenAmount \in AmountArgs,
          minimumTokenA \in AmountArgs, minimumTokenB \in FewU64Args :
           LET a == KeyArgs(s, 11)
           IN  last' = [op |-> "withdrawInstruction",
                            args |-> [keys |-> a, programId |-> swapProgramId,
                                  poolTokenAmount |-> poolTokenAmount,
                                  minimumTokenA |-> minimumTokenA, minimumTokenB |-> minimumTokenB],
                            res |-> withdrawInstruction(a[1], a[2], a[3], a[4], a[5], a[6], a[7], a[8],
                                      a[9], a[10], swapProgramId, a[11], poolTokenAmount,
                                      minimumTokenA, minimumTokenB)]
    /\ UNCHANGED <<ledger, heap, tasks, objects>>

CallInitFarm ==
    /\ last.op = "none"
    /\ \E s \in 0..MaxShift, farmProgramId \in ProgramIds, nonce \in NonceArgs,
          fees \in NumericFeesArgs :
           LET a == KeyArgs(s, 10)
           IN  last' = [op |-> "createInitFarmInstruction",
                            args |-> [keys |-> a, programId |-> farmProgramId, nonce |-> nonce,
                                  fees |-> fees],
                            res |-> createInitFarmInstruction(a[1], a[2], a[3], a[4], a[5], a[6], a[7],
                                      a[8], a[9], farmProgramId, a[10], nonce, fees)]
    /\ UNCHANGED <<ledger, heap, tasks, objects>>

CallFarmEnableUser ==
    /\ last.op = "none"
    /\ \E s \in 0..MaxShift, farmProgramId \in ProgramIds :
           LET a == KeyArgs(s, 4)
           IN  last' = [op |-> "farmEnableUserInstruction",
                            args |-> [keys |-> a, programId |-> farmProgramId],
                            res |-> farmEnableUserInstruction(a[1], a[2], a[3], a[4], farmProgramId)]
    /\ UNCHANGED <<ledger, heap, tasks, objects>>

CallFarmDeposit ==
    /\ last.op = "none"
    /\ \E s \in 0..MaxShift, farmProgramId \in ProgramIds, tokenAmountPool \in AmountArgs :
           LET a == KeyArgs(s, 10)
           IN  last' = [op |-> "farmDepositInstruction",
                            args |-> [keys |-> a, programId |-> farmProgramId,
                                  tokenAmountPool |-> tokenAmountPool],
                            res |-> farmDepositInstruction(a[1], a[2], a[3], a[4], a[5], a[6], a[7],
                                      a[8], a[9], farmProgramId, a[10], tokenAmountPool)]
    /\ UNCHANGED <<ledger, heap, tasks, objects>>

CallFarmWithdraw ==
    /\ last.op = "none"
    /\ \E s \in 0..MaxShift, farmProgramId \in ProgramIds, tokenAmountPool \in AmountArgs :
           LET a == KeyArgs(s, 10)
           IN  last' = [op |-> "farmWithdrawInstruction",
                            args |-> [keys |-> a, programId |-> farmProgramId,
                                  tokenAmountPool |-> tokenAmountPool],
                            res |-> farmWithdrawInstruction(a[1], a[2], a[3], a[4], a[5], a[6], a[7],
                                      a[8], a[9], farmProgramId, a[10], tokenAmountPool)]
    /\ UNCHANGED <<ledger, heap, tasks, objects>>

CallFarmEmergencyWithdraw ==
    /\ last.op = "none"
    /\ \E s \in 0..MaxShift, farmProgramId \in ProgramIds :
           LET a == KeyArgs(s, 10)
           IN  last' = [op |-> "farmEmergencyWithdrawInstruction",
                            args |-> [keys |-> a, programId |-> farmProgramId],
                            res |-> farmEmergencyWithdrawInstruction(a[1], a[2], a[3], a[4], a[5],
                                      a[6], a[7], a[8], a[9], farmProgramId, a[10])]
    /\ UNCHANGED <<ledger, heap, tasks, objects>>

CallFarmPrintPendingDeltafi ==
    /\ last.op = "none"
    /\ \E s \in 0..MaxShift, farmProgramId \in ProgramIds, nonce \in NonceArgs,
          fees \in NumericFeesArgs :
           LET a == KeyArgs(s, 9)
           IN  last' = [op |-> "farmPrintPendingDeltafiInstruction",
                            args |-> [keys |-> a, programId |-> farmProgramId, nonce |-> nonce,
                                  fees |-> fees],
                            res |-> farmPrintPendingDeltafiInstruction(a[1], a[2], a[3], a[4], a[5],
                                      a[6], a[7], a[8], farmProgramId, a[9], nonce, fees)]
    /\ UNCHANGED <<ledger, heap, tasks, objects>>

-----------------------------------------------------------------------------
(* Calls of the Struct wrappers and of the exported layouts.               *)

\* IFees values handed to new Fees(...): DEFAULT_FEES, DEFAULT_FEES with one
\* field replaced, and DEFAULT_FEES with one field left out.
FeeScheduleArgs ==
    {DEFAULT_FEES}
        \cup { FeesWith(k, BN(FALSE, w)) : k \in DOMAIN FeeNames, w \in AmountWords }
        \cup { FeesWithout(k) : k \in DOMAIN FeeNames }

RewardScheduleArgs ==
    {DEFAULT_REWARDS}
        \cup { RewardsWith(k, BN(FALSE, w)) : k \in DOMAIN RewardNames, w \in AmountWords }

\* How many bytes a caller's buffer may fall short of what was encoded.
MaxCut == 1

\* buf without its last cut bytes.
CutShort(buf, cut) == Buffer(SubSeq(buf.b, 1, Len(buf.b) - cut))

\* The layouts layout.ts exports, by name.
LayoutNames ==
    { "FeesLayout", "RewardsLayout", "FixedU64Layout", "FixedU256Layout",
      "OracleLayout", "ConfigInfoLayout", "StableSwapLayout", "StableSwapLayoutU256" }

LayoutNamed(name) ==
    CASE name = "FeesLayout"           -> FeesLayout("")
      [] name = "RewardsLayout"        -> RewardsLayout("")
      [] name = "FixedU64Layout"       -> FixedU64Layout("")
      [] name = "FixedU256Layout"      -> FixedU256Layout("")
      [] name = "OracleLayout"         -> OracleLayout("")
      [] name = "ConfigInfoLayout"     -> ConfigInfoLayout
      [] name = "StableSwapLayout"     -> StableSwapLayout
      [] name = "StableSwapLayoutU256" -> StableSwapLayoutU256

\* Doubles a 64-bit field is given: 0, 1, 100000, 2^53 and 2^63.
NumberSamples ==
    << Zero, NatOf(1), NatOf(100000), Words(32, 0, 0), Words(32768, 0, 0) >>

\* Doubles a signed 64-bit field is given: 4000, -1.0000001, 1000.5, -2.5
\* and -3000.
SignedSamples ==
    << JsNumber(FALSE, NatOf(4000)), JsDouble(TRUE, Words(16, 26, 14152347), -52),
       JsDouble(FALSE, NatOf(2001), -1), JsDouble(TRUE, NatOf(5), -1),
       JsNumber(TRUE, NatOf(3000)) >>

MaxSample == 4

RECURSIVE Sample(_, _)
\* The position of the field named p in a struct layout.
FieldIndex(l, p) == CHOOSE i \in DOMAIN l.fields : l.fields[i].property = p

\* A value of the layout's type: the seed selects the numbers and the bytes,
\* and each field of a struct is given a seed of its own.
Sample(l, seed) ==
    CASE l.kind = "u8"   -> Num((seed + 1) % 256)
      [] l.kind = "u32"  -> Num(seed * 65537)
      [] l.kind = "nu64" -> JsNumber(FALSE, NumberSamples[(seed % Len(NumberSamples)) + 1])
      [] l.kind = "ns64" -> SignedSamples[((seed + 1) % Len(SignedSamples)) + 1]
      [] l.kind = "blob" -> Buffer([i \in 1..l.length |-> (i + seed) % 256])
      [] l.kind = "struct" ->
            Object([p \in {l.fields[i].property : i \in DOMAIN l.fields} |->
                       Sample(l.fields[FieldIndex(l, p)],
                              seed + FieldIndex(l, p))])

FeesToBuffer ==
    /\ last.op = "none"
    /\ \E fees \in FeeScheduleArgs :
           last' = [op |-> "Fees.toBuffer", args |-> [fees |-> fees],
                    res |-> StructToBuffer(Fees(fees))]
    /\ UNCHANGED <<ledger, heap, tasks, objects>>

\* Fees.fromBuffer on what Fees.toBuffer returned, or on a shorter buffer.
FeesFromBufferCall ==
    /\ last.op = "Fees.toBuffer"
    /\ last.res.t = "Buffer"
    /\ \E cut \in 0..MaxCut :
           last' = [op |-> "Fees.fromBuffer",
                    args |-> [buf |-> CutShort(last.res, cut), cut |-> cut,
                              of |-> last.args.fees],
                    res |-> FeesFromBuffer(CutShort(last.res, cut))]
    /\ UNCHANGED <<ledger, heap, tasks, objects>>

RewardsToBuffer ==
    /\ last.op = "none"
    /\ \E rewards \in RewardScheduleArgs :
           last' = [op |-> "Rewards.toBuffer", args |-> [rewards |-> rewards],
                    res |-> StructToBuffer(Rewards(rewards))]
    /\ UNCHANGED <<ledger, heap, tasks, objects>>

RewardsFromBufferCall ==
    /\ last.op = "Rewards.toBuffer"
    /\ last.res.t = "Buffer"
    /\ \E cut \in 0..MaxCut :
           last' = [op |-> "Rewards.fromBuffer",
                    args |-> [buf |-> CutShort(last.res, cut), cut |-> cut,
                              of |-> last.args.rewards],
                    res |-> RewardsFromBuffer(CutShort(last.res, cut))]
    /\ UNCHANGED <<ledger, heap, tasks, objects>>

\* L.encode(value, Buffer.alloc(L.span)) for an exported layout L.
LayoutEncode ==
    /\ last.op = "none"
    /\ \E name \in LayoutNames, seed \in 0..MaxSample :
           last' = [op |-> "Layout.encode",
                    args |-> [layout |-> name, value |-> Sample(LayoutNamed(name), seed)],
                    res |-> Encode(LayoutNamed(name), Sample(LayoutNamed(name), seed))]
    /\ UNCHANGED <<ledger, heap, tasks, objects>>

\* L.decode(buffer) on the buffer L.encode filled, or on a shorter one.
LayoutDecode ==
    /\ last.op = "Layout.encode"
    /\ last.res.ok
    /\ \E cut \in 0..MaxCut :
           last' = [op |-> "Layout.decode",
                    args |-> [layout |-> last.args.layout,
                              buf |-> CutShort(Buffer(last.res.bytes), cut),
                              cut |-> cut, of |-> last.args.value],
                    res |-> Decode(LayoutNamed(last.args.layout),
                                   CutShort(Buffer(last.res.bytes), cut).b, 0)]
    /\ UNCHANGED <<ledger, heap, tasks, objects>>

Next ==
    \/ CallAdminInitialize \/ CallRampA \/ CallStopRamp \/ CallPause \/ CallUnpause
    \/ CallSetFeeAccount \/ CallApplyNewAdmin \/ CallCommitNewAdmin
    \/ CallSetNewFees \/ CallSetNewRewards
    \/ CallCreateInitSwap \/ CallCreateSwap \/ CallCreateDeposit
    \/ CallCreateWithdraw \/ CallCreateWithdrawOne
    \/ CallInitSwapV1 \/ CallSwap \/ CallDeposit \/ CallWithdraw
    \/ CallInitFarm \/ CallFarmEnableUser \/ CallFarmDeposit \/ CallFarmWithdraw
    \/ CallFarmEmergencyWithdraw \/ CallFarmPrintPendingDeltafi
    \/ FeesToBuffer \/ FeesFromBufferCall \/ RewardsToBuffer \/ RewardsFromBufferCall
    \/ LayoutEncode \/ LayoutDecode
    \/ Return

Spec == Init /\ [][Next]_vars

-----------------------------------------------------------------------------
(* Loaders: admin.ts loadConfig and Farm.loadFarm read an account of the   *)
(* ledger through ./util/account and decode it.                            *)

\* An account of the ledger: its recorded owner and its raw bytes.
Account(owner, data) == [exists |-> TRUE, owner |-> owner, data |-> data]

\* loadAccount without the comparison of the recorded owner.
loadAccountAnyOwner(connection, address, programId) ==
    Buffer(connection[address].data)

\* loadAccount(connection, address, programId) of ./util/account, a module
\* that is not among the sources: the bytes of the account when its recorded
\* owner is programId, and the OwnershipError of specification section 4.4
\* otherwise.  Section 4.4 names the decoding first; loadConfig
\* (admin.ts:66-68) and Farm.loadFarm (part_000:153-154) call loadAccount
\* before they decode and compare no owner afterwards, so the comparison is
\* made here, on the account and before any of its bytes is read.
loadAccount(connection, address, programId) ==
    IF connection[address].owner # programId
    THEN Throw("OwnershipError")
    ELSE Buffer(connection[address].data)

\* !v for a decoded field v.
Falsy(v) == v.t = "undefined" \/ (v.t = "number" /\ (v.nan \/ (~v.inf /\ v.w = Zero)))

\* The outcome of parserConfigInfo for a decoding of the account bytes.
ParsedConfig(address, d) ==
    IF ~d.ok THEN Throw(d.err)
    ELSE IF Falsy(Prop(d.val, "isInitialized")) THEN Undefined
    ELSE Object([publicKey |-> Num(address), data |-> d.val])

\* parserConfigInfo(address, accountInfo) of ./state: the decoded
\* ConfigInfo, or undefined when the account is not initialized.
parserConfigInfo(address, accountInfo) ==
    ParsedConfig(address, Decode(ConfigInfoLayout, accountInfo.b, 0))

\* if (!parsed) throw ...; return parsed.data
ConfigOf(parsed) ==
    CASE parsed.t = "throw"     -> parsed
      [] parsed.t = "undefined" -> Throw("Failed to load configuration account")
      [] OTHER                  -> parsed.f.data

\* The rest of loadConfig once loadAccount has returned or thrown.
ConfigFrom(address, accountInfo) ==
    IF accountInfo.t = "throw" THEN accountInfo
    ELSE ConfigOf(parserConfigInfo(address, accountInfo))

\* loadConfig reading the account whatever its recorded owner is.
loadConfigAnyOwner(connection, address, swapProgramId) ==
    ConfigFrom(address, loadAccountAnyOwner(connection, address, swapProgramId))

loadConfig(connection, address, swapProgramId) ==
    ConfigFrom(address, loadAccount(connection, address, swapProgramId))

\* layout.FarmLayout: the export is commented out in layout.ts.
FarmLayout == Undefined

\* layout.FarmLayout.decode(data)
FarmLayoutDecode(data) ==
    IF FarmLayout.t = "undefined" THEN DecodeThrown("TypeError")
    ELSE Decode(FarmLayout, data.b, 0)

\* constants.ts
TOKEN_PROGRAM_ID == 98

\* new PublicKey(buffer) of the 32 bytes of a numbered key.
PublicKeyOf(buffer) == buffer.b[32]

\* PublicKey.findProgramAddress([address.toBuffer()], programId)
findProgramAddress(address, programId) == [seed |-> address, programId |-> programId]

\* new Farm(...): the empty user is the key of no bytes, which reads as 0.
Farm(connection, farmBase, farm, farmProgramId, tokenProgramId, deltafiTokenMint, authority, adminAccount, adminFeeAccountPool, tokenAccountPool, mintPool, fees) ==
    Object([farmBase |-> farmBase,
            farm |-> farm,
            userFarming |-> 0,
            farmProgramId |-> farmProgramId,
            tokenProgramId |-> tokenProgramId,
            deltafiTokenMint |-> deltafiTokenMint,
            authority |-> authority,
            adminAccount |-> adminAccount,
            adminFeeAccountDeltafi |-> adminFeeAccountPool,
            tokenAccountPool |-> tokenAccountPool,
            mintPool |-> mintPool,
            fees |-> fees])

\* The fees object loadFarm builds from the decoded account.
FarmFees(farmData) ==
    Object([n \in {"adminTradeFeeNumerator", "adminTradeFeeDenominator",
                   "adminWithdrawFeeNumerator", "adminWithdrawFeeDenominator",
                   "tradeFeeNumerator", "tradeFeeDenominator",
                   "withdrawFeeNumerator", "withdrawFeeDenominator"} |->
               Prop(farmData, n)])

\* if (!farmData.isInitialized) throw ...; the program address is awaited
\* and new Farm(...) returned.  FarmLayout.decode throws for every account,
\* so no call reaches the second await.
FarmOf(connection, address, programId, d) ==
    IF ~d.ok THEN Throw(d.err)
    ELSE IF Falsy(Prop(d.val, "isInitialized"))
         THEN Throw("Invalid farm state")
         ELSE Farm(connection, PublicKeyOf(Prop(d.val, "farmBase")), address,
                   programId, TOKEN_PROGRAM_ID,
                   PublicKeyOf(Prop(d.val, "deltafiTokenMint")),
                   findProgramAddress(address, programId),
                   PublicKeyOf(Prop(d.val, "adminAccount")),
                   PublicKeyOf(Prop(d.val, "adminFeeAccountPool")),
                   PublicKeyOf(Prop(d.val, "tokenAccountPool")),
                   PublicKeyOf(Prop(d.val, "mintPool")),
                   FarmFees(d.val))

\* The rest of loadFarm once loadAccount has returned or thrown.
FarmFrom(connection, address, programId, data) ==
    IF data.t = "throw" THEN data
    ELSE FarmOf(connection, address, programId, FarmLayoutDecode(data))

loadFarm(connection, address, programId) ==
    FarmFrom(connection, address, programId,
             loadAccount(connection, address, programId))

\* ConfigInfo account bytes with the given isInitialized flag.
ConfigBytes(isInitialized) ==
    Encode(ConfigInfoLayout,
           Object([Sample(ConfigInfoLayout, 0).f
                      EXCEPT !["isInitialized"] = Num(isInitialized)])).bytes

\* The accounts the ledger may hold: owned by any of the programs, with
\* ConfigInfo bytes, initialized or not, whole or cut short.
LedgerAccounts ==
    { Account(owner, CutShort(Buffer(ConfigBytes(isInitialized)), cut).b) :
        owner \in ProgramIds, isInitialized \in 0..1, cut \in 0..MaxCut }

\* The address the loader calls and the transactions contend for.
LoadAddresses == {1}

LoadInit ==
    /\ ledger \in [LoadAddresses -> LedgerAccounts]
    /\ last = NoCall
    /\ heap = NoBuffers
    /\ tasks = NoTasks
    /\ objects = CallerObjects

\* SystemProgram.createAccount({ space, programId }): a zeroed account of
\* the given size that programId owns.
createAccount(space, programId) == Account(programId, Zeros(space))

\* connection.getMinimumBalanceForRentExemption(dataLength): the lamports
\* that exempt an account of that many bytes from rent.
getMinimumBalanceForRentExemption(connection, dataLength) ==
    [t |-> "lamports", exempts |-> dataLength]

\* The swap program's handling of Initialize, by its wire contract: the
\* config account records the admin and mint of the account list and the
\* amplification factor, fees and rewards of the payload.
ProcessInitialize(account, instruction) ==
    Account(account.owner,
            <<1, 0>> \o SubSeq(instruction.data, 2, 9) \o Zeros(8) \o Zeros(32)
                \o PublicKeyToBuffer(instruction.keys[2].pubkey).b
                \o PublicKeyToBuffer(instruction.keys[3].pubkey).b
                \o SubSeq(instruction.data, 10, 73)
                \o SubSeq(instruction.data, 74, 97))

\* sendAndConfirmTransaction of the createAccount and initialize
\* instructions, or the error that ended initialize before it.
\* sent lists the transactions handed to sendAndConfirmTransaction, each
\* with its instructions in order and its signers.
Initialized(connection, payer, configAccount, adminAccount, swapProgramId, balanceNeeded, instruction) ==
    IF ~instruction.ok
    THEN [res |-> Throw(instruction.err), ledger |-> connection, sent |-> << >>]
    ELSE [res |-> Undefined,
          ledger |-> [connection EXCEPT ![configAccount] =
                         ProcessInitialize(
                             createAccount(Span(ConfigInfoLayout), swapProgramId),
                             instruction)],
          sent |-> << [instructions |->
                          << [createAccount |->
                                 [fromPubkey |-> payer,
                                  newAccountPubkey |-> configAccount,
                                  lamports |-> balanceNeeded,
                                  space |-> Span(ConfigInfoLayout),
                                  programId |-> swapProgramId]],
                             instruction >>,
                       signers |-> <<payer, configAccount, adminAccount>>] >>]

\* initialize of admin.ts: the encoder is called with four arguments, so
\* its parameters deltafiMint and ampFactor receive initData and
\* swapProgramId, and fees, rewards and programId are undefined.
initialize(connection, payer, configAccount, adminAccount, initData, swapProgramId) ==
    Initialized(connection, payer, configAccount, adminAccount, swapProgramId,
                getMinimumBalanceForRentExemption(connection, Span(ConfigInfoLayout)),
                createAdminInitializeInstruction(
                    configAccount, adminAccount, initData,
                    PublicKeyValue(swapProgramId), Undefined, Undefined, Undefined))

\* The payer and the admin of an initialize call.
Payer == KeyArg(49, 1)

AdminAccounts == {KeyArg(50, 1), KeyArg(50, 2)}

\* adminInitData of the integration test, and one with another factor.
InitDataArgs ==
    { Object([ampFactor |-> BN(FALSE, NatOf(a)),
              fees |-> DEFAULT_FEES,
              rewards |-> DEFAULT_REWARDS]) : a \in {1, AMP_FACTOR} }

\* Farm.getMinBalanceRentForExemptFarm: reads layout.FarmLayout.span.
getMinBalanceRentForExemptFarm(connection) ==
    IF FarmLayout.t = "undefined" THEN Throw("TypeError")
    ELSE getMinimumBalanceForRentExemption(connection, Span(FarmLayout))

\* The rest of createFarm once the rent is known: the transaction holds
\* createAccount alone, the init instruction is built and left out of it,
\* and a Farm of the arguments is returned once the transaction is
\* confirmed.  The rent is never known, so no call gets this far.
FarmCreated(connection, payer, farmAccount, farmBaseAccount, authority, adminAccount, adminFeeAccountPool, tokenAccountPool, deltafiTokenMint, mintPool, farmProgramId, tokenProgramId, fees, balanceNeeded, instruction) ==
    IF ~instruction.ok
    THEN [res |-> Throw(instruction.err), ledger |-> connection, sent |-> << >>]
    ELSE [res |-> Farm(connection, farmBaseAccount, farmAccount, farmProgramId,
                       tokenProgramId, deltafiTokenMint, authority, adminAccount,
                       adminFeeAccountPool, tokenAccountPool, mintPool, fees),
          ledger |-> [connection EXCEPT ![farmAccount] =
                         createAccount(Span(FarmLayout), farmProgramId)],
          sent |-> << [instructions |->
                          << [createAccount |->
                                 [fromPubkey |-> payer,
                                  newAccountPubkey |-> farmAccount,
                                  lamports |-> balanceNeeded,
                                  space |-> Span(FarmLayout),
                                  programId |-> farmProgramId]] >>,
                       signers |-> <<payer, farmAccount>>] >>]

createFarm(connection, payer, farmAccount, farmBaseAccount, authority, adminAccount, adminFeeAccountPool, tokenMintPool, tokenAccountPool, deltafiTokenMint, deltafiTokenAccount, mintPool, farmProgramId, tokenProgramId, nonce, fees) ==
    IF getMinBalanceRentForExemptFarm(connection).t = "throw"
    THEN [res |-> getMinBalanceRentForExemptFarm(connection), ledger |-> connection,
          sent |-> << >>]
    ELSE FarmCreated(connection, payer, farmAccount, farmBaseAccount, authority,
                     adminAccount, adminFeeAccountPool, tokenAccountPool,
                     deltafiTokenMint, mintPool, farmProgramId, tokenProgramId,
                     fees, getMinBalanceRentForExemptFarm(connection),
                     createInitFarmInstruction(
                         farmAccount, farmBaseAccount, authority, adminAccount,
                         adminFeeAccountPool, tokenMintPool, tokenAccountPool,
                         deltafiTokenMint, deltafiTokenAccount, farmProgramId,
                         tokenProgramId, nonce, fees))

\* createFarm for a farm account, a program, a nonce and the public keys
\* k of the other accounts.
CreateFarmOf(connection, farmAccount, farmProgramId, nonce, k) ==
    createFarm(connection, Payer, farmAccount, k[1], k[2], k[3], k[4], k[5], k[6],
               k[7], k[8], k[5], farmProgramId, k[9], nonce,
               DEFAULT_FEES)

\* An async call in flight, suspended at its first await.
Awaiting(op, args) == [pc |-> "await", op |-> op, args |-> args]

\* loadConfig is called: it runs to await loadAccount(...) and hands the
\* event loop back, so other calls start and resume before it goes on.
LoadConfig ==
    /\ last.op = "none"
    /\ \E c \in Callers, address \in LoadAddresses, swapProgramId \in ProgramIds :
           /\ tasks[c].pc = "idle"
           /\ tasks' = [tasks EXCEPT ![c] =
                           Awaiting("loadConfig",
                                    [address |-> address,
                                     programId |-> swapProgramId])]
    /\ UNCHANGED <<ledger, last, heap, objects>>

\* Farm.loadFarm is called: it runs to await loadAccount(...).
LoadFarm ==
    /\ last.op = "none"
    /\ \E c \in Callers, address \in LoadAddresses, programId \in ProgramIds :
           /\ tasks[c].pc = "idle"
           /\ tasks' = [tasks EXCEPT ![c] =
                           Awaiting("loadFarm",
                                    [address |-> address, programId |-> programId])]
    /\ UNCHANGED <<ledger, last, heap, objects>>

\* initialize is called: it runs to await getMinBalanceRentForExempt(...).
Initialize ==
    /\ last.op = "none"
    /\ \E c \in Callers, configAccount \in LoadAddresses, adminAccount \in AdminAccounts,
          initData \in InitDataArgs, swapProgramId \in ProgramIds :
           /\ tasks[c].pc = "idle"
           /\ tasks' = [tasks EXCEPT ![c] =
                           Awaiting("initialize",
                                    [address |-> configAccount,
                                     adminAccount |-> adminAccount,
                                     initData |-> initData,
                                     programId |-> swapProgramId])]
    /\ UNCHANGED <<ledger, last, heap, objects>>

\* Farm.createFarm is called: it runs to
\* await Farm.getMinBalanceRentForExemptFarm(connection).
CreateFarm ==
    /\ last.op = "none"
    /\ \E c \in Callers, farmAccount \in LoadAddresses, farmProgramId \in ProgramIds,
          nonce \in NonceArgs, s \in 0..MaxShift :
           /\ tasks[c].pc = "idle"
           /\ tasks' = [tasks EXCEPT ![c] =
                           Awaiting("createFarm",
                                    [address |-> farmAccount,
                                     programId |-> farmProgramId,
                                     nonce |-> nonce,
                                     keys |-> KeyArgs(s, 9),
                                     adminFeeAccountDeltafi |-> KeyArgs(s, 9)[4],
                                     mintPool |-> KeyArgs(s, 9)[5],
                                     tokenAccountPool |-> KeyArgs(s, 9)[6],
                                     deltafiTokenMint |-> KeyArgs(s, 9)[7]])]
    /\ UNCHANGED <<ledger, last, heap, objects>>

\* What a suspended call does once it resumes, on the ledger of that
\* moment: the account is read, or the transaction sent, then and not when
\* the call was made.  Every initialize and createFarm throws before its
\* sendAndConfirmTransaction, so no call suspends a second time.
Resumed(connection, call) ==
    CASE call.op = "loadConfig" ->
            [res |-> loadConfig(connection, call.args.address, call.args.programId),
             ledger |-> connection, sent |-> << >>]
      [] call.op = "loadFarm" ->
            [res |-> loadFarm(connection, call.args.address, call.args.programId),
             ledger |-> connection, sent |-> << >>]
      [] call.op = "initialize" ->
            initialize(connection, Payer, call.args.address, call.args.adminAccount,
                       call.args.initData, call.args.programId)
      [] call.op = "createFarm" ->
            CreateFarmOf(connection, call.args.address, call.args.programId,
                         call.args.nonce, call.args.keys)

\* The awaited promise of one suspended call settles and the call runs to
\* its end; its caller gets the value or the error.
Resume ==
    /\ last.op = "none"
    /\ \E c \in Callers :
           /\ tasks[c].pc = "await"
           /\ last' = [op |-> tasks[c].op,
                       args |-> tasks[c].args,
                       res |-> Resumed(ledger, tasks[c]).res,
                       sent |-> Resumed(ledger, tasks[c]).sent]
           /\ ledger' = Resumed(ledger, tasks[c]).ledger
           /\ tasks' = [tasks EXCEPT ![c] = IdleTask]
    /\ UNCHANGED <<heap, objects>>

\* The cluster confirms a transaction of some other client while calls are
\* suspended: an account is replaced by another the ledger may hold.
LedgerChanges ==
    /\ last.op = "none"
    /\ \E address \in LoadAddresses, account \in LedgerAccounts :
           /\ ledger[address] # account
           /\ ledger' = [ledger EXCEPT ![address] = account]
    /\ UNCHANGED <<last, heap, tasks, objects>>

LoadNext ==
    LoadConfig \/ LoadFarm \/ Initialize \/ CreateFarm \/ Resume \/ LedgerChanges
        \/ Return

LoadSpec == LoadInit /\ [][LoadNext]_vars

-----------------------------------------------------------------------------
(* Invocations step by step.  An encoder builds its account list,          *)
(* allocates its payload buffer with Buffer.alloc, has the layout write    *)
(* one field after the other into it and returns it; Struct.toBuffer does  *)
(* the same from this.data.  A buffer is a cell of the heap and is held by *)
(* reference; the objects a Struct is built on are the caller's, and the   *)
(* Struct keeps the object, not a copy.  No encoder reads or writes a      *)
(* module-level variable.  The steps of one invocation may fall between    *)
(* the steps of another.                                                   *)

\* A Buffer.alloc that hands out the same buffer to every invocation.
BufferAllocShared(h) == 1

\* A Buffer.alloc that hands out the buffer it handed out last.
BufferAllocLast(h) == Cardinality(DOMAIN h)

\* Buffer.alloc: a buffer no live invocation holds.
BufferAlloc(h) ==
    CHOOSE i \in DOMAIN h : ~h[i].used /\ \A j \in DOMAIN h : ~h[j].used => i <= j

\* new Fees(o.fees) or new Rewards(o.rewards).
StructOf(which, o) == IF which = "fees" THEN Fees(o.fees) ELSE Rewards(o.rewards)

\* Calls of the two encoders of the swap instruction.
AmountCalls ==
    { [op |-> "swapInstruction", args |-> [amountIn |-> x]] :
          x \in {BN(FALSE, NatOf(1)), BN(FALSE, MaxU64), BN(FALSE, Over64)} }
        \cup { [op |-> "createSwapInstruction", args |-> [amountIn |-> BN(FALSE, NatOf(1))]] }

\* toBuffer() on the Struct of one of the caller's objects.
StructCalls ==
    { [op |-> "Struct.toBuffer", args |-> [which |-> w]] : w \in DOMAIN CallerObjects }

\* The encoders that are handed a Fees or a Rewards, called on the Structs
\* of the caller's objects.
ScheduleCalls ==
    { [op |-> e, args |-> <<>>] :
          e \in {"createSetNewFeesInstruction", "createSetNewRewardsInstruction",
                 "createAdminInitializeInstruction"} }

\* The calls made at once, on equal and on different arguments and on one
\* object.
ConcurrentCalls == AmountCalls \cup StructCalls

\* The calls of a caller that goes on to change its objects.
FrameCalls == ScheduleCalls \cup StructCalls

\* What the call returns or throws as one call, the caller's objects being o.
OutcomeOn(call, o) ==
    CASE call.op = "swapInstruction" ->
            swapInstruction(1, 2, 3, 4, 5, 6, 7, 200, 8, call.args.amountIn,
                            BN(FALSE, NatOf(100000)))
      [] call.op = "createSwapInstruction" ->
            createSwapInstruction(1, 2, 3, 4, 5, 6, 7, 8, 9, 10, call.args.amountIn,
                                  BN(FALSE, NatOf(100000)), BN(FALSE, Zero), 200)
      [] call.op = "Struct.toBuffer" -> StructToBuffer(StructOf(call.args.which, o))
      [] call.op = "createSetNewFeesInstruction" ->
            createSetNewFeesInstruction(1, 2, 3, Fees(o.fees), 200)
      [] call.op = "createSetNewRewardsInstruction" ->
            createSetNewRewardsInstruction(1, 2, 3, Rewards(o.rewards), 200)
      [] call.op = "createAdminInitializeInstruction" ->
            createAdminInitializeInstruction(1, 2, 3, BN(FALSE, NatOf(AMP_FACTOR)),
                                             Fees(o.fees), Rewards(o.rewards), 200)

\* const keys = [...]: the account list the encoder builds on entry.
KeysOf(call) ==
    CASE call.op = "swapInstruction" ->
            << Key(1, FALSE, FALSE), Key(2, FALSE, FALSE), Key(3, FALSE, TRUE),
               Key(4, FALSE, TRUE), Key(5, FALSE, TRUE), Key(6, FALSE, TRUE),
               Key(7, FALSE, TRUE), Key(8, FALSE, FALSE),
               Key(SYSVAR_CLOCK_PUBKEY, FALSE, FALSE) >>
      [] call.op = "createSwapInstruction" ->
            << Key(1, FALSE, FALSE), Key(2, FALSE, FALSE), Key(3, FALSE, TRUE),
               Key(4, FALSE, TRUE), Key(5, FALSE, TRUE), Key(6, FALSE, TRUE),
               Key(8, FALSE, TRUE), Key(9, FALSE, TRUE), Key(7, FALSE, TRUE),
               Key(10, FALSE, FALSE), Key(SYSVAR_CLOCK_PUBKEY, FALSE, FALSE) >>
      [] call.op \in {"createSetNewFeesInstruction", "createSetNewRewardsInstruction"} ->
            << Key(1, TRUE, FALSE), Key(2, FALSE, FALSE), Key(3, TRUE, FALSE) >>
      [] call.op = "createAdminInitializeInstruction" ->
            << Key(1, TRUE, FALSE), Key(2, TRUE, FALSE), Key(3, FALSE, FALSE) >>
      [] OTHER -> <<>>

\* const dataLayout = BufferLayout.struct([...]), or this.layout.
LayoutOf(call) ==
    CASE call.op = "swapInstruction" ->
            struct(<< u8("instruction"), Uint64Layout("amountIn"),
                      Uint64Layout("minimumAmountOut") >>, "")
      [] call.op = "createSwapInstruction" ->
            struct(<< u8("instruction"), nu64("amountIn"),
                      nu64("minimumAmountOut"), nu64("swapDirection") >>, "")
      [] call.op = "Struct.toBuffer" -> StructOf(call.args.which, CallerObjects).layout
      [] call.op = "createSetNewFeesInstruction" ->
            struct(<< u8("instruction"), FeesLayout("newFees") >>, "")
      [] call.op = "createSetNewRewardsInstruction" ->
            struct(<< u8("instruction"), RewardsLayout("newRewards") >>, "")
      [] call.op = "createAdminInitializeInstruction" ->
            struct(<< u8("instruction"), nu64("ampFactor"),
                      FeesLayout("fees"), RewardsLayout("rewards") >>, "")

\* dataLayout.span, or this.layout.span: the size of the buffer the call
\* allocates, whatever its arguments are.
SpanOf(call) == Span(LayoutOf(call))

\* The source the layout encodes: the object literal the encoder builds,
\* whose toBuffer() calls read the caller's objects o, or this.data.
SourceOf(call, o) ==
    CASE call.op = "swapInstruction" ->
            ObjectLiteral(<< <<"instruction", Num(1)>>,
                             <<"amountIn", NewNumberU64ToBuffer(call.args.amountIn)>>,
                             <<"minimumAmountOut",
                               NewNumberU64ToBuffer(BN(FALSE, NatOf(100000)))>> >>)
      [] call.op = "createSwapInstruction" ->
            ObjectLiteral(<< <<"instruction", Num(SwapInstruction.Swap)>>,
                             <<"amountIn", toBuffer(call.args.amountIn)>>,
                             <<"minimumAmountOut",
                               toBuffer(BN(FALSE, NatOf(100000)))>>,
                             <<"swapDirection", toBuffer(BN(FALSE, Zero))>> >>)
      [] call.op = "Struct.toBuffer" -> StructOf(call.args.which, o).data
      [] call.op = "createSetNewFeesInstruction" ->
            ObjectLiteral(<< <<"instruction", Num(AdminInstruction.CommitNewAdmin)>>,
                             <<"newFees", toBuffer(Fees(o.fees))>> >>)
      [] call.op = "createSetNewRewardsInstruction" ->
            ObjectLiteral(<< <<"instruction", Num(AdminInstruction.CommitNewAdmin)>>,
                             <<"newRewards", toBuffer(Rewards(o.rewards))>> >>)
      [] call.op = "createAdminInitializeInstruction" ->
            ObjectLiteral(<< <<"instruction", Num(AdminInstruction.Initialize)>>,
                             <<"ampFactor", toBuffer(BN(FALSE, NatOf(AMP_FACTOR)))>>,
                             <<"fees", toBuffer(Fees(o.fees))>>,
                             <<"rewards", toBuffer(Rewards(o.rewards))>> >>)

\* The encoder ends with data = data.slice(0, encodeLength).
SlicedOf(call) ==
    call.op \in {"createSetNewFeesInstruction", "createSetNewRewardsInstruction"}

\* The call ends by throwing.
Throws(r) == IF "ok" \in DOMAIN r THEN ~r.ok ELSE r.t = "throw"

\* The bytes the call encodes; none when it throws.
BytesOf(r) ==
    CASE Throws(r) -> <<>>
      [] "ok" \in DOMAIN r -> r.data
      [] OTHER -> r.b

\* return data.slice(0, length), or return new TransactionInstruction({ keys,
\* programId, data }): the value returned with the bytes its buffer holds.
Returns(call, bytes, wrote) ==
    IF call.op = "Struct.toBuffer" THEN Sliced(Wrote(bytes, wrote))
    ELSE TransactionInstruction(KeysOf(call), 200,
                                DataOf(Wrote(bytes, wrote), SlicedOf(call)))

\* The error that ends the call.
Fails(call, err) ==
    IF call.op = "Struct.toBuffer" THEN Throw(err)
    ELSE TransactionInstruction(KeysOf(call), 200,
                                [ok |-> FALSE, data |-> <<>>, err |-> err])

\* The first n bytes of the buffer b, zero where b ends before them.
FirstBytes(b, n) == [i \in 1..n |-> IF i <= Len(b) THEN b[i] ELSE 0]

\* The bytes of the buffer b after its first n.
Rest(b, n) == IF n >= Len(b) THEN <<>> ELSE SubSeq(b, n + 1, Len(b))

\* The offset of the field after the first n fields of a struct layout.
OffsetOf(l, n) == Span(l) - SumSpans(l.fields, n + 1)

\* Structure.encode on its next field: src[fd.property] is read now and
\* encoded behind the bytes the buffer holds of the fields before it.  An
\* object literal that threw has ended the call before encode was entered.
FieldEncoded(t, src) ==
    IF src.t = "throw" THEN Thrown(src.err)
    ELSE EncodeFrom(SubSeq(LayoutOf(t.call).fields, 1, t.at + 1), src, t.at + 1,
                    Wrote(FirstBytes(heap[t.buf].b, OffsetOf(LayoutOf(t.call), t.at)),
                          t.wrote))

\* The heap once the field is written into the buffer of the invocation.
Written(t, r) ==
    IF r.ok THEN [heap EXCEPT ![t.buf].b = r.bytes \o Rest(@, Len(r.bytes))] ELSE heap

\* The invocation after the field: at the next field, or ended by the error.
Advanced(t, r) ==
    IF r.ok THEN [t EXCEPT !.at = @ + 1, !.wrote = r.wrote]
    ELSE [t EXCEPT !.pc = "done", !.res = Fails(t.call, r.err)]

\* The invocation on entry: nothing allocated, nothing written.
Entered(call) ==
    [pc |-> "alloc", call |-> call, buf |-> 0, at |-> 0, wrote |-> 0,
     res |-> Undefined, before |-> objects, mutated |-> FALSE]

\* The encoder is entered.
Begin ==
    /\ \E c \in Callers, call \in ConcurrentCalls :
           /\ tasks[c].pc = "idle"
           /\ tasks' = [tasks EXCEPT ![c] = Entered(call)]
    /\ UNCHANGED <<ledger, last, heap, objects>>

\* const data = Buffer.alloc(span): zero-filled, before the source of the
\* encoding is evaluated, so a call that goes on to throw allocates too.
AllocBuffer ==
    /\ \E c \in Callers :
           /\ tasks[c].pc = "alloc"
           /\ heap' = [heap EXCEPT ![BufferAlloc(heap)] =
                           [used |-> TRUE, b |-> Zeros(SpanOf(tasks[c].call))]]
           /\ tasks' = [tasks EXCEPT ![c].pc = "encode",
                                     ![c].buf = BufferAlloc(heap)]
    /\ UNCHANGED <<ledger, last, objects>>

\* layout.encode(src, data): the next field is written.
EncodeNext ==
    /\ \E c \in Callers :
           /\ tasks[c].pc = "encode"
           /\ tasks[c].at < Len(LayoutOf(tasks[c].call).fields)
           /\ heap' = Written(tasks[c],
                              FieldEncoded(tasks[c], SourceOf(tasks[c].call, objects)))
           /\ tasks' = [tasks EXCEPT ![c] =
                            Advanced(tasks[c],
                                     FieldEncoded(tasks[c],
                                                  SourceOf(tasks[c].call, objects)))]
    /\ UNCHANGED <<ledger, last, objects>>

\* return: the buffer as it is now.
Finish ==
    /\ \E c \in Callers :
           /\ tasks[c].pc = "encode"
           /\ tasks[c].at = Len(LayoutOf(tasks[c].call).fields)
           /\ tasks' = [tasks EXCEPT ![c].pc = "done",
                                     ![c].res = Returns(tasks[c].call,
                                                        heap[tasks[c].buf].b,
                                                        tasks[c].wrote)]
    /\ UNCHANGED <<ledger, last, heap, objects>>

\* The caller drops the result; its buffer can be collected.
Collect ==
    /\ \E c \in Callers :
           /\ tasks[c].pc = "done"
           /\ heap' = [heap EXCEPT ![tasks[c].buf] = FreeBuffer]
           /\ tasks' = [tasks EXCEPT ![c] = IdleTask]
    /\ UNCHANGED <<ledger, last, objects>>

ConcurrentNext == Begin \/ AllocBuffer \/ EncodeNext \/ Finish \/ Collect

ConcurrentSpec == Init /\ [][ConcurrentNext]_vars

-----------------------------------------------------------------------------
(* A caller that keeps the objects it built a Fees and a Rewards from,     *)
(* calls the encoders one after the other, keeps what they returned, and   *)
(* assigns fields of its objects between the calls.                        *)

\* How many fields of its objects the caller has changed at most.
MaxMutations == 2

\* The fields the caller assigns.
AssignedFields == [fees |-> {"tradeFeeNumerator"}, rewards |-> {"tradeRewardCap"}]

\* The fields of the caller's objects that are not what they were built as.
Changed(o) ==
    { <<w, n>> \in UNION { {w} \X DOMAIN o[w].f : w \in DOMAIN o } :
          o[w].f[n] # CallerObjects[w].f[n] }

\* No call is in progress: an encoder runs to its return before the caller
\* does anything else.
Sequential == \A c \in Callers : tasks[c].pc \in {"idle", "done"}

\* createSetNewFeesInstruction, createSetNewRewardsInstruction or
\* createAdminInitializeInstruction is entered with the Structs of the
\* caller's objects.
EncodeSchedule ==
    /\ Sequential
    /\ \E c \in Callers, call \in ScheduleCalls :
           /\ tasks[c].pc = "idle"
           /\ tasks' = [tasks EXCEPT ![c] = Entered(call)]
    /\ UNCHANGED <<ledger, last, heap, objects>>

\* toBuffer() is entered on the Struct of one of the caller's objects.
ToBufferCall ==
    /\ Sequential
    /\ \E c \in Callers, call \in StructCalls :
           /\ tasks[c].pc = "idle"
           /\ tasks' = [tasks EXCEPT ![c] = Entered(call)]
    /\ UNCHANGED <<ledger, last, heap, objects>>

\* The caller assigns a field of one of its objects; the results it holds
\* are from before the assignment.
Mutate ==
    /\ Sequential
    /\ Cardinality(Changed(objects)) < MaxMutations
    /\ \E which \in DOMAIN objects, v \in {BN(FALSE, NatOf(7)), BN(FALSE, Over64)} :
         \E n \in AssignedFields[which] :
           /\ objects[which].f[n] # v
           /\ objects' = [objects EXCEPT ![which] =
                              Object([objects[which].f EXCEPT ![n] = v])]
    /\ tasks' = [c \in Callers |->
                    IF tasks[c].pc = "done" THEN [tasks[c] EXCEPT !.mutated = TRUE]
                    ELSE tasks[c]]
    /\ UNCHANGED <<ledger, last, heap>>

FrameNext ==
    \/ EncodeSchedule \/ ToBufferCall \/ AllocBuffer \/ EncodeNext \/ Finish
    \/ Mutate \/ Collect

FrameSpec == Init /\ [][FrameNext]_vars

-----------------------------------------------------------------------------
(* The Farm client object (farm.ts).  Its constructor keeps the farm's     *)
(* accounts and sets userFarming to new PublicKey(""); the methods build   *)
(* one-instruction transactions from the fields and their arguments.  The  *)
(* caller may assign userFarming, as the integration test does.            *)

\* The keys a caller has for a user's farming account.
UserFarmingKeys == {KeyArg(60, 1), KeyArg(60, 2)}

\* new Transaction().add(instruction), or the error the encoder threw.
TransactionOf(instruction) ==
    IF instruction.ok
    THEN [t |-> "transaction", instructions |-> <<instruction>>]
    ELSE Throw(instruction.err)

enableUser(this, userFarmmingAccount, owner) ==
    TransactionOf(
        farmEnableUserInstruction(
            this.f.farm, this.f.authority, userFarmmingAccount, owner,
            this.f.farmProgramId))

deposit(this, userAccountPool, userFarming, deltafiTokenAccount, nonce, tokenAmountPool, minimumDeltafiTokenAmount) ==
    TransactionOf(
        farmDepositInstruction(
            this.f.farmBase, this.f.farm, this.f.authority,
            this.f.adminFeeAccountDeltafi, userAccountPool, this.f.userFarming,
            this.f.tokenAccountPool, this.f.deltafiTokenMint, deltafiTokenAccount,
            this.f.farmProgramId, this.f.tokenProgramId, tokenAmountPool))

FarmInit ==
    /\ ledger = [a \in Addresses |-> NoAccount]
    /\ last = NoCall
    /\ heap = NoBuffers
    /\ tasks = NoTasks
    /\ objects = [farm |-> Undefined]

\* new Farm(...).  A library that takes only strings of 32 decoded bytes
\* refuses new PublicKey("") and the constructor throws.
NewFarm ==
    /\ last.op = "none"
    /\ objects.farm = Undefined
    /\ \E farmProgramId \in ProgramIds, accepted \in BOOLEAN :
           LET k == KeyArgs(0, 9)
               made == Farm(ledger, k[1], k[2], farmProgramId, k[3], k[4], k[5], k[6],
                            k[7], k[8], k[9], DEFAULT_FEES)
           IN  /\ last' = [op |-> "new Farm",
                           args |-> [programId |-> farmProgramId],
                           res |-> IF accepted THEN made ELSE Throw("Error")]
               /\ objects' = IF accepted THEN [farm |-> made] ELSE objects
    /\ UNCHANGED <<ledger, heap, tasks>>

\* The owner of the user's accounts; the payer only signs.
Owner == KeyArg(51, 1)

\* sendAndConfirmTransaction(title, connection, txn, payer) of the
\* transaction a Farm method built; nothing is sent when the method threw.
SentBy(txn, payer) ==
    IF txn.t = "throw" THEN << >>
    ELSE << [instructions |-> txn.instructions, signers |-> <<payer>>] >>

\* farm.enableUser(userFarmingAccount.publicKey, owner.publicKey), and the
\* transaction is sent with the payer as its signer.
EnableUser ==
    /\ last.op = "none"
    /\ objects.farm # Undefined
    /\ \E userFarmingAccount \in UserFarmingKeys :
           last' = [op |-> "Farm.enableUser",
                    args |-> [userFarming |-> userFarmingAccount,
                              owner |-> Owner],
                    res |-> enableUser(objects.farm, userFarmingAccount, Owner),
                    sent |-> SentBy(enableUser(objects.farm, userFarmingAccount,
                                               Owner),
                                    Payer)]
    /\ UNCHANGED <<ledger, heap, tasks, objects>>

\* farm.userFarming = userFarmingAccount.publicKey
SetUserFarming ==
    /\ last.op = "none"
    /\ objects.farm # Undefined
    /\ \E userFarming \in UserFarmingKeys :
           /\ objects.farm.f.userFarming # userFarming
           /\ objects' = [farm |-> Object([objects.farm.f EXCEPT
                                               !.userFarming = userFarming])]
    /\ UNCHANGED <<ledger, last, heap, tasks>>

\* farm.deposit(...), and the transaction is sent with the payer as its
\* signer.
Deposit ==
    /\ last.op = "none"
    /\ objects.farm # Undefined
    /\ \E userFarming \in UserFarmingKeys, tokenAmountPool \in AmountArgs :
           last' = [op |-> "Farm.deposit",
                    args |-> [userFarming |-> userFarming,
                              tokenAmountPool |-> tokenAmountPool,
                              farm |-> objects.farm],
                    res |-> deposit(objects.farm, KeyArg(70, 1), userFarming,
                                    KeyArg(70, 2), Num(255), tokenAmountPool, Num(0)),
                    sent |-> SentBy(deposit(objects.farm, KeyArg(70, 1), userFarming,
                                            KeyArg(70, 2), Num(255), tokenAmountPool,
                                            Num(0)),
                                    Payer)]
    /\ UNCHANGED <<ledger, heap, tasks, objects>>

FarmNext == NewFarm \/ EnableUser \/ SetUserFarming \/ Deposit \/ Return

FarmSpec == FarmInit /\ [][FarmNext]_vars

-----------------------------------------------------------------------------
(* Reference values the properties are stated against.                     *)

\* The operation each encoder of the swap program builds; an operation may
\* have an encoder in instructions.ts and one in instructions/admin.ts.
OperationOf ==
    [ createAdminInitializeInstruction |-> "admin.Initialize",
      createRampAInstruction           |-> "admin.RampA",
      createStopRampInstruction        |-> "admin.StopRamp",
      createPauseInstruction           |-> "admin.Pause",
      createUnpauseInstruction         |-> "admin.Unpause",
      createSetFeeAccountInstruction   |-> "admin.SetFeeAccount",
      createApplyNewAdminInstruction   |-> "admin.ApplyNewAdmin",
      createCommitNewAdminInstruction  |-> "admin.CommitNewAdmin",
      createSetNewFeesInstruction      |-> "admin.SetNewFees",
      createSetNewRewardsInstruction   |-> "admin.SetNewRewards",
      createInitSwapInstruction        |-> "swap.Initialize",
      createInitSwapInstructionV1      |-> "swap.Initialize",
      createSwapInstruction            |-> "swap.Swap",
      swapInstruction                  |-> "swap.Swap",
      createDepositInstruction         |-> "swap.Deposit",
      depositInstruction               |-> "swap.Deposit",
      createWithdrawInstruction        |-> "swap.Withdraw",
      withdrawInstruction              |-> "swap.Withdraw",
      createWithdrawOneInstruction     |-> "swap.WithdrawOne" ]

SwapProgramEncoders == DOMAIN OperationOf

FarmEncoders ==
    { "createInitFarmInstruction", "farmEnableUserInstruction",
      "farmDepositInstruction", "farmWithdrawInstruction",
      "farmEmergencyWithdrawInstruction", "farmPrintPendingDeltafiInstruction" }

Encoders == SwapProgramEncoders \cup FarmEncoders

\* The last call was an instruction encoder and returned an instruction.
Encoded == last.op \in Encoders /\ last.res.ok

\* The tag values the remote program dispatches on.
TagOf ==
    [ o \in { OperationOf[e] : e \in SwapProgramEncoders } |->
        CASE o = "admin.Initialize"     -> 99
          [] o = "admin.RampA"          -> 100
          [] o = "admin.StopRamp"       -> 101
          [] o = "admin.Pause"          -> 102
          [] o = "admin.Unpause"        -> 103
          [] o = "admin.SetFeeAccount"  -> 104
          [] o = "admin.ApplyNewAdmin"  -> 105
          [] o = "admin.CommitNewAdmin" -> 106
          [] o = "admin.SetNewFees"     -> 107
          [] o = "admin.SetNewRewards"  -> 108
          [] o = "swap.Initialize"      -> 0
          [] o = "swap.Swap"            -> 1
          [] o = "swap.Deposit"         -> 2
          [] o = "swap.Withdraw"        -> 3
          [] o = "swap.WithdrawOne"     -> 4 ]

\* One instruction from every encoder of the swap program, built from the
\* constants of constants.ts.
SampleInstruction(e) ==
    LET amp == BN(FALSE, NatOf(AMP_FACTOR))
        fees == Fees(DEFAULT_FEES)
        rewards == Rewards(DEFAULT_REWARDS)
        p == 200
    IN  CASE e = "createAdminInitializeInstruction" ->
                createAdminInitializeInstruction(1, 2, 3, amp, fees, rewards, p)
          [] e = "createRampAInstruction" -> createRampAInstruction(1, 2, 3, amp, amp, p)
          [] e = "createStopRampInstruction" -> createStopRampInstruction(1, 2, 3, p)
          [] e = "createPauseInstruction" -> createPauseInstruction(1, 2, 3, p)
          [] e = "createUnpauseInstruction" -> createUnpauseInstruction(1, 2, 3, p)
          [] e = "createSetFeeAccountInstruction" ->
                createSetFeeAccountInstruction(1, 2, 3, 4, p)
          [] e = "createApplyNewAdminInstruction" ->
                createApplyNewAdminInstruction(1, 2, 3, p)
          [] e = "createCommitNewAdminInstruction" ->
                createCommitNewAdminInstruction(1, 2, 3, 4, p)
          [] e = "createSetNewFeesInstruction" ->
                createSetNewFeesInstruction(1, 2, 3, fees, p)
          [] e = "createSetNewRewardsInstruction" ->
                createSetNewRewardsInstruction(1, 2, 3, rewards, p)
          [] e = "createInitSwapInstruction" ->
                createInitSwapInstruction(1, 2, 3, 4, 5, 6, 7, 8, 9, 10, 11, 12, 13, 14,
                    Num(255), amp, fees, rewards, amp, amp, amp, p)
          [] e = "createInitSwapInstructionV1" ->
                createInitSwapInstructionV1(1, 2, 3, 4, 5, 6, 7, 8, 9, 10, 11, p, 12,
                    Num(255), amp, NumericFees(DEFAULT_FEES))
          [] e = "createSwapInstruction" ->
                createSwapInstruction(1, 2, 3, 4, 5, 6, 7, 8, 9, 10, amp, amp, amp, p)
          [] e = "swapInstruction" ->
                swapInstruction(1, 2, 3, 4, 5, 6, 7, p, 8, amp, amp)
          [] e = "createDepositInstruction" ->
                createDepositInstruction(1, 2, 3, 4, 5, 6, 7, 8, 9, amp, amp, amp, p)
          [] e = "depositInstruction" ->
                depositInstruction(1, 2, 3, 4, 5, 6, 7, 8, p, 9, amp, amp, amp)
          [] e = "createWithdrawInstruction" ->
                createWithdrawInstruction(1, 2, 3, 4, 5, 6, 7, 8, 9, 10, 11, amp, amp,
                    amp, p)
          [] e = "withdrawInstruction" ->
                withdrawInstruction(1, 2, 3, 4, 5, 6, 7, 8, 9, 10, p, 11, amp, amp, amp)
          [] e = "createWithdrawOneInstruction" ->
                createWithdrawOneInstruction(1, 2, 3, 4, 5, 6, 7, 8, 9, amp, amp, p)

\* The leading payload byte of each of them.
TagsEmitted == [e \in SwapProgramEncoders |-> SampleInstruction(e).data[1]]

-----------------------------------------------------------------------------
(* C1.  Tag uniqueness: among the encoders that target the swap program    *)
(* (swap family and admin family), no encoder of one operation emits the   *)
(* leading tag byte that an encoder of another operation emits.            *)
C1_TagUniqueness ==
    (last.op \in SwapProgramEncoders /\ last.res.ok) =>
        \A e \in SwapProgramEncoders :
            OperationOf[e] # OperationOf[last.op] => TagsEmitted[e] # last.res.data[1]

(* C2.  Exact tag values: the leading payload byte of every admin-family   *)
(* and swap-family encoder is the tag value of its own operation           *)
(* (Initialize = 99 .. SetNewRewards = 108; swap Initialize = 0 ..         *)
(* WithdrawOne = 4).                                                       *)
C2_ExactTagValues ==
    (last.op \in SwapProgramEncoders /\ last.res.ok) =>
        last.res.data[1] = TagOf[OperationOf[last.op]]

\* An unsigned 64-bit amount: a number or big integer in [0, 2^64).
IsU64(x) == x.t \in {"number", "BN"} /\ ~x.neg /\ FitsU64(x.w)

\* le64(x) for an amount x.
Le64Of(x) == LE64(x.w)

RECURSIVE Le64Fields(_, _, _)
Le64Fields(obj, names, i) ==
    IF i > Len(names) THEN <<>>
    ELSE Le64Of(obj.f[names[i]]) \o Le64Fields(obj, names, i + 1)

\* The field order of a fee schedule or of a reward schedule.
FieldOrder(obj) ==
    IF DOMAIN obj.f \subseteq {FeeNames[i] : i \in DOMAIN FeeNames}
    THEN FeeNames ELSE RewardNames

\* The scalar and struct arguments of each operation, in payload order.
ArgumentOrder ==
    [ e \in Encoders |->
        CASE e = "createAdminInitializeInstruction" -> <<"ampFactor", "fees", "rewards">>
          [] e = "createRampAInstruction" -> <<"targetAmp", "stopRampTimestamp">>
          [] e = "createSetNewFeesInstruction" -> <<"newFees">>
          [] e = "createSetNewRewardsInstruction" -> <<"newRewards">>
          [] e = "createInitSwapInstruction" ->
                <<"nonce", "ampFactor", "fees", "k", "i", "isOpenTwap">>
          [] e = "createInitSwapInstructionV1" -> <<"nonce", "ampFactor", "fees">>
          [] e = "createSwapInstruction" ->
                <<"amountIn", "minimumAmountOut", "swapDirection">>
          [] e = "swapInstruction" -> <<"amountIn", "minimumAmountOut">>
          [] e \in {"createDepositInstruction", "depositInstruction"} ->
                <<"tokenAmountA", "tokenAmountB", "minimumPoolTokenAmount">>
          [] e \in {"createWithdrawInstruction", "withdrawInstruction"} ->
                <<"poolTokenAmount", "minimumTokenA", "minimumTokenB">>
          [] e = "createWithdrawOneInstruction" ->
                <<"poolTokenAmount", "minimumTokenAmount">>
          [] e \in {"createInitFarmInstruction", "farmPrintPendingDeltafiInstruction"} ->
                <<"nonce", "fees">>
          [] e \in {"farmDepositInstruction", "farmWithdrawInstruction"} ->
                <<"tokenAmountPool">>
          [] OTHER -> <<>> ]

\* The operations without arguments.
FlagOnly == { e \in Encoders : ArgumentOrder[e] = <<>> }

\* One argument fits its wire width.
ArgumentFits(name, x) ==
    CASE x.t = "object" ->
            /\ DOMAIN x.f = {FieldOrder(x)[i] : i \in DOMAIN FieldOrder(x)}
            /\ \A n \in DOMAIN x.f : IsU64(x.f[n])
      [] name = "nonce" -> IsU64(x) /\ x.w[1] < 256 /\ x.w[2] = 0 /\ x.w[3] = 0
      [] OTHER -> IsU64(x)

ArgumentsFit(e, args) ==
    \A i \in DOMAIN ArgumentOrder[e] :
        ArgumentFits(ArgumentOrder[e][i], args[ArgumentOrder[e][i]])

\* The bytes of one argument at its wire width.
ArgumentBytesOf(name, x) ==
    CASE x.t = "object" -> Le64Fields(x, FieldOrder(x), 1)
      [] name = "nonce" -> << x.w[1] >>
      [] OTHER -> Le64Of(x)

RECURSIVE ArgumentBytes(_, _, _)
ArgumentBytes(e, args, i) ==
    IF i > Len(ArgumentOrder[e]) THEN <<>>
    ELSE ArgumentBytesOf(ArgumentOrder[e][i], args[ArgumentOrder[e][i]])
            \o ArgumentBytes(e, args, i + 1)

(* C3.  For every amountIn and minimumAmountOut in [0, 2^64) the swap      *)
(* encoder returns the 17-byte payload [1] ++ le64(amountIn) ++            *)
(* le64(minimumAmountOut) and exactly 9 account references, none of them   *)
(* marked signer.                                                          *)
C3_SwapPayload ==
    ( /\ last.op \in {"swapInstruction", "createSwapInstruction"}
      /\ IsU64(last.args.amountIn)
      /\ IsU64(last.args.minimumAmountOut) ) =>
        /\ last.res.ok
        /\ last.res.data = <<1>> \o Le64Of(last.args.amountIn)
                                 \o Le64Of(last.args.minimumAmountOut)
        /\ Len(last.res.data) = 17
        /\ Len(last.res.keys) = 9
        /\ \A i \in DOMAIN last.res.keys : ~last.res.keys[i].isSigner

(* C4.  Every payload an encoder produces is one tag byte followed         *)
(* immediately by the operation's argument bytes in their fixed order; the *)
(* payload of a flag-only operation is exactly 1 byte long.                *)
C4_TagThenArguments ==
    (Encoded /\ ArgumentsFit(last.op, last.args)) =>
        /\ Len(last.res.data) >= 1
        /\ last.res.data[1] \in 0..255
        /\ SubSeq(last.res.data, 2, Len(last.res.data))
              = ArgumentBytes(last.op, last.args, 1)
        /\ last.op \in FlagOnly => Len(last.res.data) = 1

\* The FeeSchedule handed to the last call has all eight fields, each in
\* [0, 2^64).
FeeScheduleFits(fees) == ArgumentFits("fees", fees)

(* C5.  Encoding any FeeSchedule yields exactly 64 bytes in which field k  *)
(* (adminTrade, adminWithdraw, trade, withdraw; numerator before           *)
(* denominator) occupies bytes 8k..8k+7 as an unsigned little-endian       *)
(* 64-bit integer.                                                         *)
C5_FeeScheduleBytes ==
    (last.op = "Fees.toBuffer" /\ FeeScheduleFits(last.args.fees)) =>
        /\ last.res.t = "Buffer"
        /\ Len(last.res.b) = 64
        /\ \A k \in 0..7 :
              SubSeq(last.res.b, 8 * k + 1, 8 * k + 8)
                  = Le64Of(last.args.fees.f[FeeNames[k + 1]])

RECURSIVE SameValue(_, _)
\* Field-for-field equality of a decoded value and the value encoded;
\* integers are compared by value.
SameValue(a, b) ==
    CASE a.t \in {"number", "BN"} /\ b.t \in {"number", "BN"} ->
            /\ ~(a.t = "number" /\ a.nan)
            /\ ~(b.t = "number" /\ b.nan)
            /\ a.w = b.w
            /\ (a.neg = b.neg \/ a.w = Zero)
            /\ (a.t = "number" => ~a.inf /\ a.e = 0)
            /\ (b.t = "number" => ~b.inf /\ b.e = 0)
      [] a.t = "Buffer" /\ b.t = "Buffer" -> a.b = b.b
      [] a.t = "object" /\ b.t = "object" ->
            /\ DOMAIN a.f = DOMAIN b.f
            /\ \A n \in DOMAIN a.f : SameValue(a.f[n], b.f[n])
      [] OTHER -> FALSE

\* The last call decoded all the bytes an encoding produced.
DecodedWhole ==
    /\ last.op \in {"Fees.fromBuffer", "Rewards.fromBuffer", "Layout.decode"}
    /\ last.args.cut = 0

(* C6.  Round trip: for every composite layout and every value whose       *)
(* fields fit their declared widths, decoding the bytes produced by        *)
(* encoding the value returns a value equal to it field for field, e.g.    *)
(* Fees.fromBuffer(new Fees(v).toBuffer()) = v.                            *)
C6_RoundTrip ==
    (DecodedWhole /\ ArgumentFits("value", last.args.of)) =>
        last.res.ok /\ SameValue(last.res.val, last.args.of)

\* The payload length of each encoder: one tag byte and the widths of its
\* arguments.
PayloadSpan ==
    [ e \in Encoders |->
        CASE e = "createAdminInitializeInstruction" -> 97
          [] e = "createRampAInstruction" -> 17
          [] e = "createSetNewFeesInstruction" -> 65
          [] e = "createSetNewRewardsInstruction" -> 25
          [] e = "createInitSwapInstruction" -> 98
          [] e = "createInitSwapInstructionV1" -> 74
          [] e = "createSwapInstruction" -> 25
          [] e = "swapInstruction" -> 17
          [] e \in {"createDepositInstruction", "depositInstruction"} -> 25
          [] e \in {"createWithdrawInstruction", "withdrawInstruction"} -> 25
          [] e = "createWithdrawOneInstruction" -> 17
          [] e \in {"createInitFarmInstruction", "farmPrintPendingDeltafiInstruction"} -> 66
          [] e \in {"farmDepositInstruction", "farmWithdrawInstruction"} -> 9
          [] OTHER -> 1 ]

(* C7.  Span determinism: whenever an encoding returns bytes (Struct       *)
(* .toBuffer, every instruction encoder's data buffer, every exported      *)
(* layout's encode), their length is exactly the layout's span, whatever   *)
(* the field values are and whichever fields are supplied.                 *)
C7_SpanDeterminism ==
    /\ (last.op = "Fees.toBuffer" /\ last.res.t = "Buffer") => Len(last.res.b) = 64
    /\ (last.op = "Rewards.toBuffer" /\ last.res.t = "Buffer") => Len(last.res.b) = 24
    /\ Encoded => Len(last.res.data) = PayloadSpan[last.op]
    /\ (last.op = "Layout.encode" /\ last.res.ok) =>
          /\ Len(last.res.bytes) = Span(LayoutNamed(last.args.layout))
          /\ last.res.wrote = Span(LayoutNamed(last.args.layout))

\* A FeeSchedule with a field left out was encoded to 64 bytes.
C7_Witness ==
    /\ last.op = "Fees.toBuffer"
    /\ DOMAIN last.args.fees.f # {FeeNames[i] : i \in DOMAIN FeeNames}
    /\ last.res.t = "Buffer"
    /\ Len(last.res.b) = 64

(* C8.  Decoding a buffer shorter than the layout's span always fails      *)
(* with a structural error and never returns a struct.                     *)
C8_ShortBufferRejected ==
    ( /\ last.op \in {"Fees.fromBuffer", "Rewards.fromBuffer", "Layout.decode"}
      /\ last.args.cut >= 1 ) =>
        ~last.res.ok /\ last.res.err = "RangeError"

\* The account the last loader call read.
Loaded == ledger[last.args.address]

\* The last call was a loader call.
LoaderCalled == last.op \in {"loadConfig", "loadFarm"}

C10_UninitializedGate ==
    ( /\ LoaderCalled
      /\ Loaded.owner = last.args.programId
      /\ Loaded.data = ConfigBytes(0) ) =>
        /\ last.res.t = "throw"
        /\ last.res.err \in {"Failed to load configuration account", "Invalid farm state"}

\* Why a loader call has to fail: the account is owned by another program,
\* its bytes are fewer than the PoolConfig span, its isInitialized flag is 0.
FailureCauses ==
    {c \in {"owner", "short", "uninitialized"} :
        \/ c = "owner" /\ Loaded.owner # last.args.programId
        \/ c = "short" /\ Len(Loaded.data) < 202
        \/ c = "uninitialized" /\ Len(Loaded.data) >= 1 /\ Loaded.data[1] = 0}

\* The error that reports each cause.
ErrorsOf ==
    [ owner |-> {"OwnershipError"},
      short |-> {"RangeError"},
      uninitialized |-> {"Failed to load configuration account", "Invalid farm state"} ]

(* C11.  A loader returns a decoded struct only when the ownership check   *)
(* and the initialization check both passed, and every failure is reported *)
(* as one error kind that tells a short buffer, a wrong owner and an       *)
(* uninitialized account apart.                                            *)
C11_LoaderErrorKinds ==
    LoaderCalled =>
        /\ last.res.t # "throw" => FailureCauses = {}
        /\ last.res.t = "throw" => \E c \in FailureCauses : last.res.err \in ErrorsOf[c]

\* A value outside [0, 2^64).
OutsideU64(x) ==
    x.t \in {"number", "BN"} /\ ((x.neg /\ x.w # Zero) \/ ~FitsU64(x.w))

\* An argument destined for unsigned 64-bit fields, or one of the fields of
\* a schedule, is outside [0, 2^64).
ArgumentOverflows(name, x) ==
    CASE x.t = "object" -> \E n \in DOMAIN x.f : OutsideU64(x.f[n])
      [] name = "nonce" -> FALSE
      [] OTHER -> OutsideU64(x)

(* C12.  For every instruction encoder and every argument destined for an  *)
(* unsigned 64-bit field, a value that is negative or at least 2^64 makes   *)
(* the encoder fail with a width-overflow error and return no instruction.  *)
C12_OverflowRefused ==
    ( /\ last.op \in Encoders
      /\ \E i \in DOMAIN ArgumentOrder[last.op] :
            ArgumentOverflows(ArgumentOrder[last.op][i],
                              last.args[ArgumentOrder[last.op][i]]) ) =>
        /\ ~last.res.ok
        /\ last.res.err \in {"WidthOverflowError", "RangeError"}


\* A loaded ConfigInfo carries the admin and the init data of an initialize
\* call, and no pending-admin deadline.
ConfigCarries(c, adminAccount, initData) ==
    /\ c.t = "object"
    /\ SameValue(c.f.adminKey, PublicKeyToBuffer(adminAccount))
    /\ SameValue(c.f.ampFactor, initData.f.ampFactor)
    /\ SameValue(c.f.fees, initData.f.fees)
    /\ SameValue(c.f.rewards, initData.f.rewards)
    /\ SameValue(c.f.futureAdminDeadline, Num(0))

(* C13. admin.initialize(payer, configAccount, adminAccount, initData,      *)
(* swapProgramId) completes, and once it has, loadConfig on the config      *)
(* address returns a ConfigInfo whose adminKey is the admin account's       *)
(* public key, whose ampFactor, eight fee fields and three reward fields    *)
(* are those of initData, and whose futureAdminDeadline is 0.               *)
C13_InitializeThenLoad ==
    last.op = "initialize" =>
        /\ last.res.t # "throw"
        /\ ConfigCarries(loadConfig(ledger, last.args.address, last.args.programId),
                         last.args.adminAccount, last.args.initData)

\* A loaded Farm names the farm account and the accounts createFarm was
\* given.
FarmCarries(f, args) ==
    /\ f.t = "object"
    /\ f.f.farm = args.address
    /\ f.f.adminFeeAccountDeltafi = args.adminFeeAccountDeltafi
    /\ f.f.tokenAccountPool = args.tokenAccountPool
    /\ f.f.mintPool = args.mintPool
    /\ f.f.deltafiTokenMint = args.deltafiTokenMint

(* C14. Farm.createFarm completes, and once it has, Farm.loadFarm on the     *)
(* farm address succeeds and returns a Farm whose farm is the farm          *)
(* account's public key and whose adminFeeAccountDeltafi, tokenAccountPool, *)
(* mintPool and deltafiTokenMint are those passed to createFarm.            *)
C14_CreateFarmThenLoad ==
    last.op = "createFarm" =>
        /\ last.res.t # "throw"
        /\ FarmCarries(loadFarm(ledger, last.args.address, last.args.programId),
                       last.args)

\* The fields of PoolConfig and their sizes in bytes, in wire order.
PoolConfigFields ==
    << <<"isInitialized", 1>>, <<"isPaused", 1>>, <<"ampFactor", 8>>,
       <<"futureAdminDeadline", 8>>, <<"futureAdminKey", 32>>,
       <<"adminKey", 32>>, <<"deltafiMint", 32>>, <<"fees", 64>>,
       <<"rewards", 24>> >>

RECURSIVE OffsetIn(_, _)
\* The offset of the i-th field of a table of names and sizes.
OffsetIn(table, i) ==
    IF i = 1 THEN 0 ELSE OffsetIn(table, i - 1) + table[i - 1][2]

\* bytes[offset .. offset + n), counting offsets from 0.
BytesAt(bytes, offset, n) == SubSeq(bytes, offset + 1, offset + n)

\* The layout declares the fields of the table in its order and with its
\* sizes, and the bytes encoded from value hold each field's own encoding
\* at the offset the table gives it.
FlatConcatenation(l, table, value, bytes) ==
    /\ Len(l.fields) = Len(table)
    /\ \A i \in DOMAIN table :
          /\ l.fields[i].property = table[i][1]
          /\ Span(l.fields[i]) = table[i][2]
          /\ BytesAt(bytes, OffsetIn(table, i), table[i][2])
                 = Encode(l.fields[i], value.f[table[i][1]]).bytes

(* C15. The PoolConfig layout is the flat concatenation isInitialized(1),    *)
(* isPaused(1), ampFactor(8), futureAdminDeadline(8), futureAdminKey(32),   *)
(* adminKey(32), deltafiMint(32), fees(64), rewards(24): its span is 202    *)
(* bytes, the fee schedule sits at offset 114 and the reward schedule at    *)
(* offset 178.                                                              *)
C15_PoolConfigLayout ==
    (last.op = "Layout.encode" /\ last.args.layout = "ConfigInfoLayout" /\ last.res.ok) =>
        /\ Span(ConfigInfoLayout) = 202
        /\ Len(last.res.bytes) = 202
        /\ FlatConcatenation(ConfigInfoLayout, PoolConfigFields,
                             last.args.value, last.res.bytes)
        /\ BytesAt(last.res.bytes, 114, 64)
               = Encode(FeesLayout(""), last.args.value.f.fees).bytes
        /\ BytesAt(last.res.bytes, 178, 24)
               = Encode(RewardsLayout(""), last.args.value.f.rewards).bytes

\* C15: a config was encoded whose deadline is the negative fraction
\* -1.0000001, written at offset 10 as the eight bytes ff, and whose fee and
\* reward schedules are not zero and differ from one another.
C15_Witness ==
    /\ last.op = "Layout.encode"
    /\ last.args.layout = "ConfigInfoLayout"
    /\ last.res.ok
    /\ last.args.value.f.futureAdminDeadline.neg
    /\ last.args.value.f.futureAdminDeadline.e < 0
    /\ BytesAt(last.res.bytes, 10, 8) = [i \in 1..8 |-> 255]
    /\ BytesAt(last.res.bytes, 114, 64) # Zeros(64)
    /\ BytesAt(last.res.bytes, 178, 8) # Zeros(8)
    /\ BytesAt(last.res.bytes, 178, 24) # BytesAt(last.res.bytes, 114, 24)

\* The spans of the value layouts.
DeclaredSpan ==
    [ FixedU64Layout |-> 16, FixedU256Layout |-> 64,
      RewardsLayout |-> 24, OracleLayout |-> 204 ]

\* The fields of the value layouts whose fields are given, with their sizes.
DeclaredFields ==
    [ FixedU64Layout |-> << <<"inner", 8>>, <<"basePoint", 8>> >>,
      FixedU256Layout |-> << <<"inner", 32>>, <<"basePoint", 32>> >>,
      OracleLayout |-> << <<"period", 4>>, <<"token0", 32>>, <<"token1", 32>>,
                          <<"price0Cumulative", 32>>, <<"price1Cumulative", 32>>,
                          <<"blockTimestamp", 8>>, <<"price0Average", 32>>,
                          <<"price1Average", 32>> >> ]

(* C16. FixedU64 spans 16 bytes (inner and basePoint, 8 each), FixedU256     *)
(* spans 64 (32 each), RewardSchedule spans 24, and OracleSnapshot spans    *)
(* 204 bytes laid out as period(4), token0(32), token1(32),                 *)
(* price0Cumulative(32), price1Cumulative(32), blockTimestamp(8),           *)
(* price0Average(32), price1Average(32).                                    *)
C16_ValueLayoutSpans ==
    (last.op = "Layout.encode" /\ last.args.layout \in DOMAIN DeclaredSpan /\ last.res.ok) =>
        /\ Span(LayoutNamed(last.args.layout)) = DeclaredSpan[last.args.layout]
        /\ Len(last.res.bytes) = DeclaredSpan[last.args.layout]
        /\ last.args.layout \in DOMAIN DeclaredFields =>
              FlatConcatenation(LayoutNamed(last.args.layout),
                                DeclaredFields[last.args.layout],
                                last.args.value, last.res.bytes)

\* C16: an oracle snapshot was encoded whose period and timestamp are not
\* zero.
C16_Witness ==
    /\ last.op = "Layout.encode"
    /\ last.args.layout = "OracleLayout"
    /\ last.res.ok
    /\ BytesAt(last.res.bytes, 0, 4) # Zeros(4)
    /\ BytesAt(last.res.bytes, 132, 8) # Zeros(8)

\* An invocation has returned or thrown.
Done(c) == tasks[c].pc = "done"

(* C17. Encoders are pure and free of interference: under every             *)
(* interleaving of the steps of concurrent invocations each invocation      *)
(* returns the program, the account list and the payload bytes it returns   *)
(* when run alone on the same inputs, invocations on equal inputs return    *)
(* equal results, and no invocation changes the ledger or the objects of    *)
(* the caller.                                                              *)
C17_NoInterference ==
    /\ \A c \in Callers :
          Done(c) => tasks[c].res = OutcomeOn(tasks[c].call, tasks[c].before)
    /\ \A c \in Callers, d \in Callers :
          (Done(c) /\ Done(d) /\ tasks[c].call = tasks[d].call) =>
              tasks[c].res = tasks[d].res
    /\ ledger = [a \in Addresses |-> NoAccount]
    /\ objects = CallerObjects

\* C17: an invocation ran from its allocation to its return with payload
\* bytes while another one, on other arguments, had written some of its
\* fields and not yet all.
C17_Witness ==
    \E c \in Callers, d \in Callers :
        /\ Done(c)
        /\ ~Throws(tasks[c].res)
        /\ tasks[c].buf = 2
        /\ tasks[d].pc = "encode"
        /\ tasks[d].buf = 1
        /\ tasks[d].at > 0
        /\ tasks[d].at < Len(LayoutOf(tasks[d].call).fields)
        /\ tasks[c].call # tasks[d].call
        /\ BytesOf(tasks[c].res) # <<>>
        /\ FirstBytes(heap[1].b, 1) # FirstBytes(heap[2].b, 1)

\* The payload bytes a returned value has now: the returned buffer is the
\* buffer the call allocated, or a slice of it, and is read where it lies.
PayloadNow(t) == BytesOf(Returns(t.call, heap[t.buf].b, t.wrote))

(* C18. A fee or reward schedule is immutable once encoded: after           *)
(* set-new-fees, set-new-rewards, initialize-config or toBuffer has         *)
(* returned, whatever the caller assigns to the objects behind the Fees and *)
(* the Rewards and whatever it encodes next, the bytes of the returned      *)
(* payload are the encoding of the objects as they were at the call; and    *)
(* the call itself leaves the Struct's data as it found them.               *)
C18_EncodedScheduleFrozen ==
    \A c \in Callers :
        (Done(c) /\ tasks[c].call \in FrameCalls) =>
            /\ ~Throws(tasks[c].res) =>
                   PayloadNow(tasks[c])
                       = BytesOf(OutcomeOn(tasks[c].call, tasks[c].before))
            /\ ~tasks[c].mutated => objects = tasks[c].before

\* C18: initialize-config returned a payload, the caller then changed a
\* field of its fee object and called toBuffer, which returned other bytes
\* than the Struct had before the change; the payload is as it was.
C18_Witness ==
    \E c \in Callers, d \in Callers :
        /\ Done(c)
        /\ tasks[c].call.op = "createAdminInitializeInstruction"
        /\ ~Throws(tasks[c].res)
        /\ tasks[c].mutated
        /\ Done(d)
        /\ tasks[d].call = [op |-> "Struct.toBuffer", args |-> [which |-> "fees"]]
        /\ ~tasks[d].mutated
        /\ ~Throws(tasks[d].res)
        /\ tasks[d].before # tasks[c].before
        /\ BytesOf(tasks[d].res)
               # BytesOf(OutcomeOn(tasks[d].call, tasks[c].before))
        /\ PayloadNow(tasks[c]) = BytesOf(OutcomeOn(tasks[c].call, tasks[c].before))

\* The schedule handed to a set-new-fees or set-new-rewards call.
ScheduleOf(op, args) ==
    IF op = "createSetNewFeesInstruction" THEN args.newFees ELSE args.newRewards

\* The schedules such a call may be handed.
SchedulesFor(op) ==
    IF op = "createSetNewFeesInstruction" THEN FeesArgs ELSE RewardsArgs

\* The instruction the encoder named op returns for the accounts of args
\* and the schedule g.
ScheduleEncoded(op, args, g) ==
    IF op = "createSetNewFeesInstruction"
    THEN createSetNewFeesInstruction(args.keys[1], args.keys[2], args.keys[3],
                                     Fees(g), args.programId)
    ELSE createSetNewRewardsInstruction(args.keys[1], args.keys[2], args.keys[3],
                                        Rewards(g), args.programId)

(* C19. The set-new-fees payload is the tag byte followed by the 64-byte    *)
(* encoding of the fee schedule (65 bytes), the set-new-rewards payload the *)
(* tag byte followed by the 24-byte encoding of the reward schedule (25     *)
(* bytes), and two different schedules always give different payloads.      *)
C19_SchedulePayload ==
    ( /\ last.op \in {"createSetNewFeesInstruction", "createSetNewRewardsInstruction"}
      /\ ArgumentFits("schedule", ScheduleOf(last.op, last.args)) ) =>
        /\ last.res.ok
        /\ Len(last.res.data)
              = IF last.op = "createSetNewFeesInstruction" THEN 65 ELSE 25
        /\ SubSeq(last.res.data, 2, Len(last.res.data))
              = ArgumentBytesOf("schedule", ScheduleOf(last.op, last.args))
        /\ \A g \in SchedulesFor(last.op) :
              ( /\ ArgumentFits("schedule", g)
                /\ ~SameValue(g, ScheduleOf(last.op, last.args)) ) =>
                  ScheduleEncoded(last.op, last.args, g).data # last.res.data

(* C20. For poolTokenAmount and minimumTokenAmount in [0, 2^64) the          *)
(* withdraw-single-asset payload is exactly [4] ++ le64(poolTokenAmount)    *)
(* ++ le64(minimumTokenAmount), 17 bytes, so that a non-zero                *)
(* minimumTokenAmount shows in bytes 9..16.                                 *)
C20_WithdrawOnePayload ==
    ( /\ last.op = "createWithdrawOneInstruction"
      /\ IsU64(last.args.poolTokenAmount)
      /\ IsU64(last.args.minimumTokenAmount) ) =>
        /\ last.res.ok
        /\ Len(last.res.data) = 17
        /\ last.res.data = <<4>> \o Le64Of(last.args.poolTokenAmount)
                                 \o Le64Of(last.args.minimumTokenAmount)
        /\ last.args.minimumTokenAmount.w # Zero =>
              SubSeq(last.res.data, 10, 17) # Zeros(8)

\* createInitSwapInstruction on the accounts, program and arguments of a.
InitSwapOf(a) ==
    createInitSwapInstruction(a.keys[1], a.keys[2], a.keys[3], a.keys[4], a.keys[5],
                              a.keys[6], a.keys[7], a.keys[8], a.keys[9], a.keys[10],
                              a.keys[11], a.keys[12], a.keys[13], a.keys[14], a.nonce,
                              a.ampFactor, Fees(a.fees), Rewards(a.rewards), a.k, a.i,
                              a.isOpenTwap, a.programId)

\* The values one argument of the initialize-pool encoder may be changed to.
InitSwapValues(name) ==
    CASE name = "nonce"   -> NonceArgs
      [] name = "fees"    -> FeesArgs
      [] name = "rewards" -> RewardsArgs
      [] OTHER            -> U64Args

\* b differs from a in the value of exactly the argument name.
DiffersIn(a, b, name) ==
    /\ b = [a EXCEPT ![name] = b[name]]
    /\ b[name] \in InitSwapValues(name)
    /\ ArgumentFits(name, b[name])
    /\ ~SameValue(a[name], b[name])

(* C21. Every scalar or struct argument of the initialize-pool encoder      *)
(* (nonce, ampFactor, fees, rewards, k, i, isOpenTwap) is carried in the    *)
(* payload after tag 0: a call that differs from another in any one of      *)
(* these arguments, all accounts equal, returns different payload bytes.    *)
C21_InitSwapCarriesArguments ==
    ( /\ last.op = "createInitSwapInstruction"
      /\ ArgumentsFit(last.op, last.args) ) =>
        /\ last.res.ok
        /\ last.res.data[1] = 0
        /\ \A name \in {"nonce", "ampFactor", "fees", "rewards", "k", "i", "isOpenTwap"} :
              \A v \in InitSwapValues(name) :
                  DiffersIn(last.args, [last.args EXCEPT ![name] = v], name) =>
                      /\ InitSwapOf([last.args EXCEPT ![name] = v]).ok
                      /\ InitSwapOf([last.args EXCEPT ![name] = v]).data
                             # last.res.data

(* C22. For every ampFactor, fee schedule and reward schedule the           *)
(* initialize-config instruction has the payload [99] ++ le64(ampFactor)    *)
(* ++ fees (64 bytes) ++ rewards (24 bytes), 97 bytes in all, and exactly   *)
(* 3 account references, config (signer), admin (signer) and reward-token   *)
(* mint (not signer), all read-only, and targets the given program id.      *)
C22_AdminInitializeInstruction ==
    ( /\ last.op = "createAdminInitializeInstruction"
      /\ ArgumentsFit(last.op, last.args) ) =>
        /\ last.res.ok
        /\ Len(last.res.data) = 97
        /\ last.res.data = <<99>> \o Le64Of(last.args.ampFactor)
                                  \o ArgumentBytesOf("fees", last.args.fees)
                                  \o ArgumentBytesOf("rewards", last.args.rewards)
        /\ last.res.keys = << Key(last.args.keys[1], TRUE, FALSE),
                              Key(last.args.keys[2], TRUE, FALSE),
                              Key(last.args.keys[3], FALSE, FALSE) >>
        /\ last.res.programId = last.args.programId

\* The encoders of the admin family, and those of swap, deposit, withdraw
\* and withdraw-single-asset.
AdminFamily ==
    { e \in SwapProgramEncoders :
        OperationOf[e] \in { "admin.Initialize", "admin.RampA", "admin.StopRamp",
                             "admin.Pause", "admin.Unpause", "admin.SetFeeAccount",
                             "admin.ApplyNewAdmin", "admin.CommitNewAdmin",
                             "admin.SetNewFees", "admin.SetNewRewards" } }

TradeFamily ==
    { e \in SwapProgramEncoders :
        OperationOf[e] \in { "swap.Swap", "swap.Deposit", "swap.Withdraw",
                             "swap.WithdrawOne" } }

\* Which of its account arguments an admin encoder is given as the admin:
\* the second of initialize-config, the third of every other one.
AdminArgument(e) == IF e = "createAdminInitializeInstruction" THEN 2 ELSE 3

\* The positions of the account references marked as signers.
SignerPositions(keys) == { i \in DOMAIN keys : keys[i].isSigner }

(* C23. Every admin-family instruction marks exactly two account            *)
(* references as signers, the first reference (the config or pool account)  *)
(* and the admin account, and every other reference as non-signer; swap,    *)
(* deposit, withdraw and withdraw-single-asset mark no reference as signer. *)
C23_SignerFlags ==
    /\ (Encoded /\ last.op \in AdminFamily) =>
          /\ SignerPositions(last.res.keys) = {1, AdminArgument(last.op)}
          /\ last.res.keys[1].pubkey = last.args.keys[1]
          /\ last.res.keys[AdminArgument(last.op)].pubkey
                 = last.args.keys[AdminArgument(last.op)]
    /\ (Encoded /\ last.op \in TradeFamily) =>
          SignerPositions(last.res.keys) = {}

\* C23: an admin instruction was returned that has a reference between its
\* two signers and one after them.
C23_Witness ==
    /\ Encoded
    /\ last.op \in AdminFamily
    /\ Len(last.res.keys) > 3
    /\ ~last.res.keys[2].isSigner
    /\ last.res.keys[3].isSigner
    /\ ~last.res.keys[4].isSigner

(* C24. The single transaction admin.initialize submits holds exactly two   *)
(* instructions in order: the system createAccount for the config account   *)
(* with space ConfigInfoLayout.span and owner swapProgramId, then the       *)
(* initialize-config instruction for that config account; its signers are   *)
(* the payer, the config account and the admin account.                     *)
C24_InitializeTransaction ==
    last.op = "initialize" =>
        /\ Len(last.sent) = 1
        /\ Len(last.sent[1].instructions) = 2
        /\ last.sent[1].instructions[1] =
               [createAccount |-> [fromPubkey |-> Payer,
                                   newAccountPubkey |-> last.args.address,
                                   lamports |->
                                       getMinimumBalanceForRentExemption(
                                           ledger, Span(ConfigInfoLayout)),
                                   space |-> Span(ConfigInfoLayout),
                                   programId |-> last.args.programId]]
        /\ last.sent[1].instructions[2].ok
        /\ last.sent[1].instructions[2].data[1] = AdminInstruction.Initialize
        /\ last.sent[1].instructions[2].keys[1].pubkey = last.args.address
        /\ last.sent[1].signers = <<Payer, last.args.address, last.args.adminAccount>>

(* C25. The transaction Farm.createFarm submits holds the system            *)
(* createAccount for the farm account followed by the InitializeFarm        *)
(* instruction, so the farm account is created and initialized when         *)
(* createFarm returns.                                                      *)
C25_CreateFarmTransaction ==
    last.op = "createFarm" =>
        /\ Len(last.sent) = 1
        /\ Len(last.sent[1].instructions) = 2
        /\ "createAccount" \in DOMAIN last.sent[1].instructions[1]
        /\ last.sent[1].instructions[1].createAccount.newAccountPubkey = last.args.address
        /\ last.sent[1].instructions[2].ok
        /\ last.sent[1].instructions[2].keys[1].pubkey = last.args.address
        /\ last.res.t = "object"
        /\ ledger[last.args.address].exists

\* The leading bytes the swap-family and admin-family encoders emit.
SwapProgramTagsEmitted == { TagsEmitted[e] : e \in SwapProgramEncoders }

(* C26. No farm-family encoder emits a leading tag byte that a swap-family  *)
(* or admin-family encoder emits: the first payload byte of every           *)
(* instruction a farm encoder returns is the first payload byte of no       *)
(* instruction of the other two families.                                   *)
C26_FarmTagsApart ==
    (Encoded /\ last.op \in FarmEncoders) =>
        last.res.data[1] \notin SwapProgramTagsEmitted

\* C26: initialize-farm returned its payload, led by 108, while the
\* encoders of the other families emit 106 and 107 and not 108.
C26_Witness ==
    /\ Encoded
    /\ last.op = "createInitFarmInstruction"
    /\ last.res.data[1] = 108
    /\ {106, 107} \cap SwapProgramTagsEmitted # {}
    /\ TagsEmitted["createSetNewRewardsInstruction"] # 108

(* C27. For every tokenAmountPool in [0, 2^64), farmDepositInstruction      *)
(* returns the payload [31] ++ le64(tokenAmountPool) and                    *)
(* farmWithdrawInstruction returns [32] ++ le64(tokenAmountPool), each 9    *)
(* bytes long with 11 account references; neither fails.                    *)
C27_FarmAmountPayload ==
    ( /\ last.op \in {"farmDepositInstruction", "farmWithdrawInstruction"}
      /\ IsU64(last.args.tokenAmountPool) ) =>
        /\ last.res.ok
        /\ last.res.data =
               << IF last.op = "farmDepositInstruction" THEN 31 ELSE 32 >>
                   \o Le64Of(last.args.tokenAmountPool)
        /\ Len(last.res.data) = 9
        /\ Len(last.res.keys) = 11

(* C28. Farm.deposit builds its instruction with the userFarming its caller *)
(* supplies: whatever was called on the Farm object before, the sixth       *)
(* account reference (position 5) of the farm-deposit instruction it        *)
(* returns is the userFarming argument.                                     *)
C28_DepositUserFarming ==
    (last.op = "Farm.deposit" /\ last.res.t = "transaction") =>
        /\ Len(last.res.instructions) = 1
        /\ last.res.instructions[1].data[1] = 31
        /\ last.res.instructions[1].keys[6].pubkey = last.args.userFarming

\* The members the two AdminInstruction enums share.
SharedAdminMembers == DOMAIN AdminInstruction \cap DOMAIN AdminInstructionV1

(* C29. The two AdminInstruction enums of the repository, one starting at   *)
(* RampA = 100 and one at Initialize = 99, give the same value to every     *)
(* member they share, RampA through SetNewRewards = 100..108; so the tag an *)
(* admin encoder takes from one enum is the value the other enum has for    *)
(* that member.                                                             *)
C29_AdminEnumsAgree ==
    /\ SharedAdminMembers = DOMAIN AdminInstructionV1
    /\ { AdminInstructionV1[m] : m \in SharedAdminMembers } = 100..108
    /\ \A m \in SharedAdminMembers : AdminInstruction[m] = AdminInstructionV1[m]
    /\ (Encoded /\ last.op \in AdminFamily) =>
           \A m \in SharedAdminMembers :
               last.res.data[1] = AdminInstruction[m] =>
                   last.res.data[1] = AdminInstructionV1[m]

\* C29: an admin encoder returned an instruction whose tag is the value both
\* enums give to SetFeeAccount.
C29_Witness ==
    /\ Encoded
    /\ last.op = "createSetFeeAccountInstruction"
    /\ last.res.data[1] = AdminInstruction.SetFeeAccount
    /\ last.res.data[1] = AdminInstructionV1.SetFeeAccount
=============================================================================
